---- MODULE Spec2Model ----
(***************************************************************************)
(* A model of target_snowflake/db_sync.py (class DbSync and its helpers).  *)
(*                                                                         *)
(* Three parts of the program are modelled, each with its own              *)
(* specification over the same variables:                                  *)
(*   SpecPipe  - DbSync.load_via_snowpipe, one step per statement group    *)
(*   SpecLoad  - DbSync.load_csv against a warehouse table                 *)
(*   SpecSync  - DbSync.sync_table / DbSync.update_columns                 *)
(* Python's None is the string "None"; a dict is a function whose DOMAIN   *)
(* is the set of keys that are present.                                    *)
(***************************************************************************)
EXTENDS Integers, Sequences, FiniteSets, TLC

VARIABLES
    \* ---- DbSync object ----
    connection_config,   \* self.connection_config (the keys the model reads)
    key_properties,      \* self.stream_schema_message['key_properties']
    \* ---- load_via_snowpipe: locals and position ----
    pc,                  \* position inside load_via_snowpipe
    retries,             \* local `retries`
    wait_time,           \* the live _increment_value generator
    history_resp,        \* history_resp['files'] of the last get_history()
    private_key,         \* what _load_private_key opened: [path, password]
    outcome,             \* how the call ended: "running", "returned", an exception name, "SystemExit"
    exit_status,         \* argument of sys.exit, "None" if never called
    \* ---- observations of the call (history variables) ----
    attempts,            \* number of ingest_files() calls
    polls,               \* number of get_history() calls
    slept,               \* durations passed to time.sleep in the current loop
    sql_log,             \* statements handed to self.query, in order
    logged,              \* set of logger messages emitted
    \* ---- environment: warehouse and ingestion service ----
    pipe_exists,         \* the pipe of this table exists in the warehouse
    pipe_files,          \* files the pipe already loaded before this call
    \* ---- load_csv ----
    flatten_schema,      \* self.flatten_schema: column name -> schema property
    staged,              \* lines (sequences of cells) of the staged file s3_key
    table_rows,          \* rows of the stream's table in the warehouse
    copied_files,        \* load metadata of the table: files COPY has loaded
    load_log,            \* one record per load_csv call, in call order
    \* ---- sync_table / update_columns ----
    table_cache,         \* self.table_cache: None, or a list of column rows
    grantees,            \* self.grantees: "None", a role, or a sequence of roles
    live,                \* the warehouse catalog: set of column rows
    now,                 \* time.strftime("%Y%m%d_%H%M") of the wall clock
    injected,            \* statement failures the environment has injected
    calls,               \* one record per sync_table call
    \* ---- module-level functions ----
    pure_call,           \* the function under call and its arguments
    pure_result,         \* what the call returned or raised
    \* ---- DbSync.__init__ ----
    dbsync,              \* the object under construction and where __init__ is
    \* ---- connections: open_connection, query, load_csv ----
    connects,            \* snowflake.connector.connect calls that returned so far
    connections,         \* the connections that are open
    operation,           \* the warehouse operation that is running
    executed,            \* statements executed, each with its connection
    op_log               \* one record per finished warehouse operation

pipe_vars == <<pc, retries, wait_time, history_resp, private_key, outcome,
               exit_status, attempts, polls, slept, sql_log, logged,
               pipe_exists, pipe_files>>

load_vars == <<flatten_schema, staged, table_rows, copied_files, load_log>>

sync_vars == <<table_cache, grantees, live, now, injected, calls>>

pure_vars == <<pure_call, pure_result>>

conn_vars == <<connects, connections, operation, executed, op_log>>

rest_vars == <<pure_vars, dbsync, conn_vars>>

vars == <<connection_config, key_properties, pipe_vars, load_vars, sync_vars,
          rest_vars>>

----------------------------------------------------------------------------
(* Bounds of the model *)

\* largest configured max_retry that is enumerated
MaxRetryCfg == 2
\* highest number of empty history responses the service gives in a row
MaxPolls == 4

\* sleeps of the submit loop that are recorded; the generator is advanced that
\* often and then held (its values only grow)
MaxSleeps == 4

(* Program constants *)

\* connection_config.get('max_retry', 5)
DefaultMaxRetry == 5
\* _increment_value: the linear sequence adds 30
LinearBase == 30

\* attempts are counted up to here and then saturate (Python ints do not)
MaxAttempts == DefaultMaxRetry + MaxRetryCfg + 2
\* retries below this are represented by this value (they never return to 0)
MinRetries == 0 - 2

None == "None"

----------------------------------------------------------------------------
(* Python helpers *)

\* dict.get(key, default)
DictGet(d, k, default) == IF k \in DOMAIN d THEN d[k] ELSE default

\* names that resolve as attributes of a dict instance (its methods)
DictAttributes == {"get", "keys", "values", "items", "pop", "update",
                   "setdefault", "copy", "clear"}

\* getattr(obj, name, default) where obj is a dict: the keys of a dict are
\* not attributes, only its methods are
GetAttrOfDict(d, name, default) ==
    IF name \in DictAttributes THEN "bound method" ELSE default

\* methods of logging.Logger (what singer.get_logger returns)
LoggerMethods == {"debug", "info", "warning", "error", "critical", "exception"}

\* calling self.logger.<m>(...): an unknown attribute raises AttributeError
LoggerCall(m) == IF m \in LoggerMethods THEN "ok" ELSE "AttributeError"

Min(a, b) == IF a < b THEN a ELSE b
Max(a, b) == IF a > b THEN a ELSE b

----------------------------------------------------------------------------
(* Names and the type mapper *)

\* str.upper on the names of the model
upper(s) ==
    CASE s = "id" -> "ID"
      [] s = "region" -> "REGION"
      [] s = "ts" -> "TS"
      [] s = "orders" -> "ORDERS"
      [] s = "orders_temp" -> "ORDERS_TEMP"
      [] s = "analytics" -> "ANALYTICS"
      [] s = "payload" -> "PAYLOAD"
      [] s = "payload__x" -> "PAYLOAD__X"
      [] s = "text" -> "TEXT"
      [] s = "number" -> "NUMBER"
      [] s = "float" -> "FLOAT"
      [] s = "timestamp_ntz" -> "TIMESTAMP_NTZ"
      [] s = "variant" -> "VARIANT"
      [] s = "boolean" -> "BOOLEAN"
      [] s = "time" -> "TIME"
      [] s = "binary" -> "BINARY"
      [] OTHER -> s

\* str.lower on the names of the model
lower(s) ==
    CASE s = "ID" -> "id"
      [] s = "REGION" -> "region"
      [] s = "TS" -> "ts"
      [] s = "ORDERS" -> "orders"
      [] s = "ANALYTICS" -> "analytics"
      [] OTHER -> s

\* no module-level function is under call
PureIdle ==
    /\ pure_call = [fn |-> "none"]
    /\ pure_result = [done |-> FALSE]

\* no DbSync is under construction
InitIdle == dbsync = [pc |-> "idle"]

\* no connection was opened and no warehouse operation has run
ConnIdle ==
    /\ connects = 0
    /\ connections = {}
    /\ operation = [kind |-> "idle"]
    /\ executed = <<>>
    /\ op_log = <<>>

RestIdle == PureIdle /\ InitIdle /\ ConnIdle

\* sync_table and update_columns have not been called
SyncIdle ==
    /\ table_cache = [none |-> TRUE, rows |-> {}]
    /\ grantees = "None"
    /\ live = {}
    /\ now = "20261103_1724"
    /\ injected = 0
    /\ calls = <<>>

\* '"{}"'.format(s): a quoted identifier names exactly s
Quote(s) == "\"" \o s \o "\""

\* safe_column_name(name)
safe_column_name(name) == Quote(upper(name))

\* the names the warehouse can store, and the name a quoted identifier denotes
Stamps == {"20261103_1724"}
BaseIdentifiers == {"ID", "REGION", "TS", "ORDERS", "id", "region", "ts", "orders"}
Identifiers == BaseIdentifiers \cup {b \o "_" \o t : b \in BaseIdentifiers, t \in Stamps}
Unquote(q) == CHOOSE n \in Identifiers : Quote(n) = q

column_type_IntegerFirst(schema_property) ==
    LET property_type == schema_property["type"]
        property_format == DictGet(schema_property, "format", None)
    IN  CASE "object" \in property_type \/ "array" \in property_type -> "variant"
          [] property_format = "date-time" -> "timestamp_ntz"
          [] property_format = "time" -> "time"
          [] property_format = "binary" -> "binary"
          [] "number" \in property_type -> "float"
          [] "integer" \in property_type -> "number"
          [] "boolean" \in property_type -> "boolean"
          [] OTHER -> "text"

\* column_type(schema_property)
column_type(schema_property) ==
    LET property_type == schema_property["type"]
        property_format == DictGet(schema_property, "format", None)
    IN  CASE "object" \in property_type \/ "array" \in property_type -> "variant"
          [] property_format = "date-time" -> "timestamp_ntz"
          [] property_format = "time" -> "time"
          [] property_format = "binary" -> "binary"
          [] "number" \in property_type -> "float"
          [] "integer" \in property_type /\ "string" \in property_type -> "text"
          [] "integer" \in property_type -> "number"
          [] "boolean" \in property_type -> "boolean"
          [] OTHER -> "text"

\* column_trans(schema_property)
column_trans(schema_property) ==
    LET property_type == schema_property["type"]
    IN  CASE "object" \in property_type \/ "array" \in property_type -> "parse_json"
          [] DictGet(schema_property, "format", None) = "binary" -> "to_binary"
          [] OTHER -> ""

\* column_clause(name, schema_property): the name and the type it declares
column_clause(name, schema_property) ==
    [name |-> safe_column_name(name), type |-> column_type(schema_property)]

\* schema properties used by the model
IntegerProperty == [type |-> {"null", "integer"}]
StringProperty == [type |-> {"null", "string"}]
NumberProperty == [type |-> {"null", "number"}]
DateTimeProperty == [type |-> {"null", "string"}, format |-> "date-time"]

\* flatten_schema returns dict(sorted_items): iteration is in sorted name order
SortedNames == <<"id", "region", "ts">>

RECURSIVE KeysFrom(_, _)
KeysFrom(d, i) ==
    IF i > Len(SortedNames) THEN <<>>
    ELSE (IF SortedNames[i] \in DOMAIN d THEN <<SortedNames[i]>> ELSE <<>>)
         \o KeysFrom(d, i + 1)

\* the keys of a flattened schema in iteration order
Keys(d) == KeysFrom(d, 1)

\* the flattened schema of the orders stream of the load model
OrdersSchema == [id |-> IntegerProperty, region |-> StringProperty]

----------------------------------------------------------------------------
(* Python strings as sequences of one-character strings *)

\* the characters of the model, in code point order
CodeOrder ==
    <<"-", ".", "0", "1", "2", "3", "4", "5", "6", "7", "8", "9",
      "A", "B", "C", "D", "E", "F", "G", "H", "I", "J", "K", "L", "M",
      "N", "O", "P", "Q", "R", "S", "T", "U", "V", "W", "X", "Y", "Z",
      "_",
      "a", "b", "c", "d", "e", "f", "g", "h", "i", "j", "k", "l", "m",
      "n", "o", "p", "q", "r", "s", "t", "u", "v", "w", "x", "y", "z">>

Characters == {CodeOrder[i] : i \in DOMAIN CodeOrder}

\* ord(c)
OrdOf == [c \in Characters |-> CHOOSE i \in DOMAIN CodeOrder : CodeOrder[i] = c]
Ord(c) == OrdOf[c]

FirstUpper == Ord("A")
FirstLower == Ord("a")
Letters == Ord("Z") - Ord("A") + 1

\* the regular expression class [a-z], and its upper case counterpart
LowerCase == {CodeOrder[i] : i \in FirstLower .. FirstLower + Letters - 1}
UpperCase == {CodeOrder[i] : i \in FirstUpper .. FirstUpper + Letters - 1}
IsLower(c) == c \in LowerCase
IsUpper(c) == c \in UpperCase

\* str.upper and str.lower, of one character and of a string
UpperOf ==
    [c \in Characters |->
        IF IsLower(c) THEN CodeOrder[Ord(c) - FirstLower + FirstUpper] ELSE c]
LowerOf ==
    [c \in Characters |->
        IF IsUpper(c) THEN CodeOrder[Ord(c) - FirstUpper + FirstLower] ELSE c]
Upper(cs) == [i \in DOMAIN cs |-> UpperOf[cs[i]]]
Lower(cs) == [i \in DOMAIN cs |-> LowerOf[cs[i]]]

\* the text of a character sequence
RECURSIVE Text(_)
Text(cs) ==
    IF cs = <<>> THEN ""
    ELSE IF Len(cs) = 1 THEN cs[1]
    ELSE LET half == Len(cs) \div 2
         IN  Text(SubSeq(cs, 1, half)) \o Text(SubSeq(cs, half + 1, Len(cs)))

\* sep.join(parts)
RECURSIVE Join(_, _)
Join(sep, parts) ==
    IF parts = <<>> THEN <<>>
    ELSE IF Len(parts) = 1 THEN parts[1]
    ELSE parts[1] \o sep \o Join(sep, Tail(parts))

\* s.replace(old, new) for a one-character old
Replace(cs, old, new) == [i \in DOMAIN cs |-> IF cs[i] = old THEN new ELSE cs[i]]

\* s.split(separator) for a one-character separator: the pieces between the
\* separators, empty pieces included
RECURSIVE SplitFrom(_, _, _, _)
SplitFrom(cs, separator, i, piece) ==
    IF i > Len(cs) THEN <<piece>>
    ELSE IF cs[i] = separator
         THEN <<piece>> \o SplitFrom(cs, separator, i + 1, <<>>)
         ELSE SplitFrom(cs, separator, i + 1, Append(piece, cs[i]))

Split(cs, separator) == SplitFrom(cs, separator, 1, <<>>)

\* s < t for strings: the first differing character decides, a proper prefix
\* is smaller
StrLess(a, b) ==
    LET differing == {i \in 1 .. Min(Len(a), Len(b)) : a[i] # b[i]}
    IN  IF differing = {} THEN Len(a) < Len(b)
        ELSE LET i == CHOOSE j \in differing : \A m \in differing : j <= m
             IN  Ord(a[i]) < Ord(b[i])

\* Python's None where the other values are character sequences (no
\* character of a string is the text "None")
NoneStr == <<None>>

\* the default of separator
DefaultSeparator == "-"

stream_name_to_dict_LastSegment(stream_name, separator) ==
    LET s == Split(stream_name, separator)
    IN  IF Len(s) = 1
        THEN [catalog_name |-> NoneStr, schema_name |-> NoneStr,
              table_name |-> stream_name]
        ELSE [catalog_name |-> IF Len(s) > 2 THEN s[1] ELSE NoneStr,
              schema_name |-> s[Len(s) - 1], table_name |-> s[Len(s)]]

\* lines 216-229: the dict made of s = stream_name.split(separator)
names_of(s, stream_name) ==
    CASE Len(s) = 2 ->
            [catalog_name |-> NoneStr, schema_name |-> s[1], table_name |-> s[2]]
      [] Len(s) > 2 ->
            [catalog_name |-> s[1], schema_name |-> s[2],
             table_name |-> Join(<<"_">>, SubSeq(s, 3, Len(s)))]
      [] OTHER ->
            [catalog_name |-> NoneStr, schema_name |-> NoneStr,
             table_name |-> stream_name]

\* stream_name_to_dict(stream_name, separator)
stream_name_to_dict(stream_name, separator) ==
    names_of(Split(stream_name, separator), stream_name)

\* inflection.camelize(string): re.sub(r"(?:^|_)(.)", upper of group 1).
\* Scanning from the left, the first character is upper-cased; after it, an
\* underscore that has a character behind it and is not itself the character
\* taken by the match before it, is dropped and the character behind it is
\* upper-cased.  In a run of underscores every second one is dropped.
RunStart(cs, i) ==
    1 + CHOOSE j \in 1 .. i - 1 :
            /\ j = 1 \/ cs[j] # "_"
            /\ \A m \in j + 1 .. i - 1 : cs[m] = "_"

Dropped(cs, i) ==
    /\ i > 1
    /\ i < Len(cs)
    /\ cs[i] = "_"
    /\ (i - RunStart(cs, i)) % 2 = 0

camelize(cs) ==
    LET marked == [i \in DOMAIN cs |->
                      IF Dropped(cs, i) THEN "dropped"
                      ELSE IF i = 1 \/ Dropped(cs, i - 1) THEN Upper(<<cs[i]>>)[1]
                      ELSE cs[i]]
    IN  SelectSeq(marked, LAMBDA c : c # "dropped")

\* re.sub(r'[a-z]', '', s)
strip_lowercase(cs) == SelectSeq(cs, LAMBDA c : ~IsLower(c))

\* s[0:n]
Prefix(cs, n) == SubSeq(cs, 1, IF Len(cs) < n THEN Len(cs) ELSE n)

----------------------------------------------------------------------------
(* flatten_key *)

\* `len(sep.join(inflected_key)) >= 255`
NameLimit == 255
\* inflected_key[reducer_index][0:3]
ShortPrefix == 3

\* the test that lets the reducer run
TooLong(name) == Len(name) >= NameLimit

\* one turn of the while loop: the segment at reducer_index is replaced
reduce_segment(segment) ==
    LET reduced_key == strip_lowercase(camelize(segment))
    IN  Lower(IF Len(reduced_key) > 1 THEN reduced_key
              ELSE Prefix(segment, ShortPrefix))

\* the while loop of flatten_key; reducer_index counts from 1 here
RECURSIVE reduce_key(_, _, _)
reduce_key(inflected_key, reducer_index, sep) ==
    IF TooLong(Join(sep, inflected_key)) /\ reducer_index <= Len(inflected_key)
    THEN reduce_key([inflected_key EXCEPT
                        ![reducer_index] = reduce_segment(inflected_key[reducer_index])],
                    reducer_index + 1, sep)
    ELSE inflected_key

flatten_key_SingleUnderscore(k, parent_key, sep) ==
    Join(<<"_">>, reduce_key(Append(parent_key, k), 1, sep))

\* flatten_key(k, parent_key, sep)
flatten_key(k, parent_key, sep) ==
    LET full_key == Append(parent_key, k)
    IN  Join(sep, reduce_key(full_key, 1, sep))

\* the default of sep
DefaultSep == <<"_", "_">>

----------------------------------------------------------------------------
(* flatten_schema and flatten_record *)

(* A Python dict that the program iterates is a sequence of <<key, value>>  *)
(* pairs with distinct keys, in insertion order.  A JSON schema node is a   *)
(* record: 'type' holds a list of type names (a set here), 'type_str' a     *)
(* type given as one plain string, 'properties' a dict of nodes, 'anyOf' a  *)
(* list of nodes.  A JSON value is a record [t, v] tagged with its Python   *)
(* type: "int", "str", "dict" (v a dict), "list" (v a sequence), "null".    *)

\* k in d, d[k] and d.keys() for such a dict
HasKey(d, k) == \E i \in DOMAIN d : d[i][1] = k
Lookup(d, k) == d[CHOOSE i \in DOMAIN d : d[i][1] = k][2]
KeySet(d) == {d[i][1] : i \in DOMAIN d}

\* dict_of(items): a later item of the same key replaces the value of the
\* earlier one and keeps its place
RECURSIVE dict_of(_)
dict_of(items) ==
    IF items = <<>> THEN <<>>
    ELSE LET n == Len(items)
             before == dict_of(SubSeq(items, 1, n - 1))
             last == items[n]
         IN  IF HasKey(before, last[1])
             THEN [i \in DOMAIN before |->
                      IF before[i][1] = last[1] THEN last ELSE before[i]]
             ELSE Append(before, last)

\* sorted(items, key=item[0]): stable, by the key's text
RECURSIVE sorted(_)
sorted(items) ==
    IF items = <<>> THEN <<>>
    ELSE LET n == Len(items)
             before == sorted(SubSeq(items, 1, n - 1))
             last == items[n]
             smaller == SelectSeq(before, LAMBDA it : ~StrLess(last[1], it[1]))
             larger == SelectSeq(before, LAMBDA it : StrLess(last[1], it[1]))
         IN  smaller \o <<last>> \o larger

HasDuplicate_Never(sorted_items) == FALSE

\* itertools.groupby over the sorted items finds a group of more than one
HasDuplicate(sorted_items) ==
    \E i \in DOMAIN sorted_items :
        i < Len(sorted_items) /\ sorted_items[i][1] = sorted_items[i + 1][1]

\* the branch of flatten_schema for a property without 'type': the first
\* alternative of its first value is made nullable in place and taken
untyped_property(new_key, v) ==
    IF DOMAIN v = {} THEN [error |-> None, items |-> <<>>, v |-> v]
    ELSE LET alternatives == v.anyOf
         IN  IF alternatives = <<>>
             THEN [error |-> "IndexError", items |-> <<>>, v |-> v]
             ELSE LET first == alternatives[1]
                      named == IF "type_str" \in DOMAIN first THEN first.type_str
                               ELSE None
                      nullable ==
                          [f \in (DOMAIN first \ {"type_str"}) \cup {"type"} |->
                              IF f = "type" THEN {"null", named} ELSE first[f]]
                  IN  IF "type_str" \notin DOMAIN first /\ "type" \notin DOMAIN first
                      THEN [error |-> "KeyError", items |-> <<>>, v |-> v]
                      ELSE IF named \in {"string", "array", "object"}
                      THEN [error |-> None,
                            items |-> <<<<new_key, nullable>>>>,
                            v     |-> [v EXCEPT !.anyOf[1] = nullable]]
                      ELSE [error |-> None, items |-> <<>>, v |-> v]

\* `'object' in v['type'] and 'properties' in v and level < max_level`
DescendsInto(v, level, max_level) ==
    "object" \in v.type /\ "properties" \in DOMAIN v /\ level < max_level

\* flatten_schema(d, parent_key, sep, level, max_level): the error raised or
\* the dict returned (items), and the schema node d as the call leaves it
RECURSIVE flatten_schema_of(_, _, _, _, _)
RECURSIVE flatten_properties(_, _, _, _, _, _)
flatten_properties(properties, i, parent_key, sep, level, max_level) ==
    IF i > Len(properties)
    THEN [error |-> None, items |-> <<>>, properties |-> properties]
    ELSE LET k == properties[i][1]
             v == properties[i][2]
             new_key == flatten_key(k, parent_key, sep)
             nested == flatten_schema_of(v, Append(parent_key, k), sep,
                                         level + 1, max_level)
             step == IF "type" \in DOMAIN v
                     THEN IF DescendsInto(v, level, max_level)
                          THEN [error |-> nested.error, items |-> nested.items,
                                v |-> nested.d]
                          ELSE [error |-> None, items |-> <<<<new_key, v>>>>,
                                v |-> v]
                     ELSE untyped_property(new_key, v)
             after == [properties EXCEPT ![i] = <<k, step.v>>]
         IN  IF step.error # None
             THEN [error |-> step.error, items |-> <<>>, properties |-> after]
             ELSE LET rest == flatten_properties(after, i + 1, parent_key, sep,
                                                 level, max_level)
                  IN  [error |-> rest.error,
                       items |-> IF rest.error = None THEN step.items \o rest.items
                                 ELSE <<>>,
                       properties |-> rest.properties]

flatten_schema_of(d, parent_key, sep, level, max_level) ==
    IF "properties" \notin DOMAIN d
    THEN [error |-> None, items |-> <<>>, d |-> d]
    ELSE LET loop == flatten_properties(d.properties, 1, parent_key, sep,
                                        level, max_level)
             sorted_items == sorted(loop.items)
             left == [d EXCEPT !.properties = loop.properties]
         IN  IF loop.error # None
             THEN [error |-> loop.error, items |-> <<>>, d |-> left]
             ELSE IF HasDuplicate(sorted_items)
             THEN [error |-> "ValueError", items |-> <<>>, d |-> left]
             ELSE [error |-> None, items |-> dict_of(sorted_items), d |-> left]

\* json.dumps(v): the text of a JSON value (integers of one digit)
RECURSIVE json_text(_)
RECURSIVE json_members(_, _)
json_members(pairs, i) ==
    IF i > Len(pairs) THEN ""
    ELSE (IF i > 1 THEN ", " ELSE "")
         \o "\"" \o Text(pairs[i][1]) \o "\": " \o json_text(pairs[i][2])
         \o json_members(pairs, i + 1)

RECURSIVE json_elements(_, _)
json_elements(values, i) ==
    IF i > Len(values) THEN ""
    ELSE (IF i > 1 THEN ", " ELSE "") \o json_text(values[i])
         \o json_elements(values, i + 1)

json_text(value) ==
    CASE value.t = "dict" -> "{" \o json_members(value.v, 1) \o "}"
      [] value.t = "list" -> "[" \o json_elements(value.v, 1) \o "]"
      [] value.t = "str" -> "\"" \o value.v \o "\""
      [] value.t = "int" -> CodeOrder[Ord("0") + value.v]
      [] OTHER -> "null"

json_dumps(value) == [t |-> "str", v |-> json_text(value)]

\* _should_json_dump_value(key, value, flatten_schema)
should_json_dump_value(key, value, schema) ==
    \/ value.t \in {"dict", "list"}
    \/ /\ schema # <<>>
       /\ HasKey(schema, key)
       /\ "type" \in DOMAIN Lookup(schema, key)
       /\ Lookup(schema, key).type = {"null", "object", "array"}

\* flatten_record(d, flatten_schema, parent_key, sep, level, max_level): the
\* items collected, before dict_of(items)
RECURSIVE flatten_record_items(_, _, _, _, _, _, _)
flatten_record_items(d, i, schema, parent_key, sep, level, max_level) ==
    IF i > Len(d) THEN <<>>
    ELSE LET k == d[i][1]
             v == d[i][2]
             new_key == flatten_key(k, parent_key, sep)
             here == IF v.t = "dict" /\ level < max_level
                     THEN dict_of(flatten_record_items(v.v, 1, schema,
                                                    Append(parent_key, k), sep,
                                                    level + 1, max_level))
                     ELSE <<<<new_key,
                              IF should_json_dump_value(k, v, schema)
                              THEN json_dumps(v) ELSE v>>>>
         IN  here \o flatten_record_items(d, i + 1, schema, parent_key, sep,
                                          level, max_level)

flatten_record(d, schema, max_level) ==
    dict_of(flatten_record_items(d, 1, schema, <<>>, DefaultSep, 0, max_level))

----------------------------------------------------------------------------
(* load_via_snowpipe *)

\* the staged file this call submits, and another file of the same pipe
s3_key == "batch.csv"
OtherFile == "earlier.csv"

\* _increment_value(exponentially): a fresh generator
increment_value(exponentially) ==
    [previous |-> 0, current |-> 1, exponentially |-> exponentially]

\* the value the generator yields next
NextWait(g) ==
    IF g.exponentially THEN 2 ^ (g.current + g.previous)
    ELSE g.current + g.previous + LinearBase

\* the generator after the yield: current = current + previous;
\* previous = current - previous
Advance(g) ==
    LET c == g.current + g.previous
    IN  [g EXCEPT !.current = c, !.previous = c - g.previous]

\* _load_private_key: the path and password it reads
load_private_key(config) ==
    [path     |-> GetAttrOfDict(config, "private_key_path", "/rsa_key.p8"),
     password |-> GetAttrOfDict(config, "private_key_password", None)]

\* results the warehouse can give to "create pipe"
CreatePipeResults(exists) ==
    (IF exists THEN {} ELSE {"ok"}) \cup {"ProgrammingError", "DatabaseError"}

ExceptProgrammingError_Nothing(res) == FALSE

\* `except ProgrammingError as error` around the create-pipe statement
ExceptProgrammingError(res) == res = "ProgrammingError"

\* try: warning if keys; self.query(create_pipe_sql)
\* except ProgrammingError: log only
CreatePipe ==
    /\ pc = "create_pipe"
    /\ \E res \in CreatePipeResults(pipe_exists) :
        /\ sql_log' = Append(sql_log, "create pipe")
        /\ logged' = logged
              \cup (IF Len(key_properties) > 0 THEN {"primary key warning"} ELSE {})
              \cup (IF ExceptProgrammingError(res) THEN {"create pipe error"} ELSE {})
        /\ pipe_exists' = (pipe_exists \/ res = "ok")
        /\ IF res # "ok" /\ ~ExceptProgrammingError(res)
           THEN /\ pc' = "end"
                /\ outcome' = res
           ELSE /\ pc' = "load_key"
                /\ outcome' = outcome
    /\ UNCHANGED <<rest_vars, load_vars, sync_vars, connection_config, key_properties, retries, wait_time,
                   history_resp, private_key, exit_status, attempts, polls,
                   slept, pipe_files>>

\* private_key_text = _load_private_key(); ingest manager; retries; wait_time
LoadKey ==
    /\ pc = "load_key"
    /\ private_key' = load_private_key(connection_config)
    /\ \E opened \in BOOLEAN :
        IF opened
        THEN /\ pc' = "submit"
             /\ retries' = DictGet(connection_config, "max_retry", DefaultMaxRetry)
             /\ wait_time' = increment_value(TRUE)
             /\ outcome' = outcome
        ELSE /\ pc' = "end"
             /\ outcome' = "FileNotFoundError"
             /\ UNCHANGED <<retries, wait_time>>
    /\ UNCHANGED <<rest_vars, load_vars, sync_vars, connection_config, key_properties, history_resp, exit_status,
                   attempts, polls, slept, sql_log, logged, pipe_exists,
                   pipe_files>>

\* results of ingest_manager.ingest_files
IngestResults == {"ok", "HTTPError", "ConnectionError"}

\* try: resp = ingest_manager.ingest_files(staged_file_list); break
Submit ==
    /\ pc = "submit"
    /\ attempts' = Min(attempts + 1, MaxAttempts)
    /\ \E res \in IngestResults :
        CASE res = "ok" ->
                /\ pc' = "poll"
                /\ wait_time' = increment_value(FALSE)
                /\ slept' = <<>>
                /\ outcome' = outcome
          [] res = "HTTPError" ->
                /\ pc' = "backoff"
                /\ UNCHANGED <<wait_time, slept, outcome>>
          [] OTHER ->
                /\ pc' = "end"
                /\ outcome' = res
                /\ UNCHANGED <<wait_time, slept>>
    /\ logged' = logged \cup {"ingest attempt"}
                      \cup (IF pc' = "poll" THEN {"files received"} ELSE {})
    /\ UNCHANGED <<rest_vars, load_vars, sync_vars, connection_config, key_properties, retries, history_resp,
                   private_key, exit_status, polls, sql_log, pipe_exists,
                   pipe_files>>

RetriesExhausted_OffByOne(r) == r < 0

\* `if not retries`: the test that ends the retry loop
RetriesExhausted(r) == r = 0

\* except HTTPError: sleep(next(wait_time)); retries -= 1;
\* if not retries: self.logger.critcal(...); sys.exit(1)
Backoff ==
    /\ pc = "backoff"
    /\ slept' = IF Len(slept) < MaxSleeps THEN Append(slept, NextWait(wait_time))
                ELSE slept
    /\ wait_time' = IF Len(slept) < MaxSleeps THEN Advance(wait_time) ELSE wait_time
    /\ retries' = Max(retries - 1, MinRetries)
    /\ IF RetriesExhausted(retries')
       THEN /\ pc' = "fatal"
            /\ IF LoggerCall("critcal") = "ok"
               THEN /\ outcome' = "SystemExit"
                    /\ exit_status' = 1
               ELSE /\ outcome' = LoggerCall("critcal")
                    /\ exit_status' = exit_status
       ELSE /\ pc' = "submit"
            /\ UNCHANGED <<outcome, exit_status>>
    /\ logged' = logged \cup {"http error"}
    /\ UNCHANGED <<rest_vars, load_vars, sync_vars, connection_config, key_properties, history_resp, private_key,
                   attempts, polls, sql_log, pipe_exists, pipe_files>>

\* the file lists get_history can return: files the pipe holds
RECURSIVE SeqsOver(_, _)
SeqsOver(S, n) ==
    IF n = 0 THEN {<<>>}
    ELSE LET shorter == SeqsOver(S, n - 1)
         IN  shorter \cup {Append(s, x) : s \in shorter, x \in S}

Range(s) == {s[i] : i \in DOMAIN s}

HistoryResponses(known) ==
    {h \in SeqsOver(known, Cardinality(known)) : Cardinality(Range(h)) = Len(h)}

PollingComplete_Always(files) == TRUE

\* `if len(history_resp['files']) > 0`: the test that ends polling
PollingComplete(files) == Len(files) > 0

\* history_resp = get_history(); if complete: log, self.query(drop_pipe_sql), break
Poll ==
    /\ pc = "poll"
    /\ polls' = polls + 1
    /\ \E h \in HistoryResponses(pipe_files \cup {s3_key}) :
        /\ (h = <<>>) => polls < MaxPolls
        /\ history_resp' = h
        /\ IF PollingComplete(h)
           THEN \E res \in {"ok", "ProgrammingError"} :
                /\ logged' = logged \cup {"ingest report"}
                /\ sql_log' = Append(sql_log, "drop pipe")
                /\ pipe_exists' = (pipe_exists /\ res # "ok")
                /\ pc' = "end"
                /\ outcome' = IF res = "ok" THEN "returned" ELSE res
           ELSE /\ pc' = "poll_wait"
                /\ UNCHANGED <<logged, sql_log, pipe_exists, outcome>>
    /\ UNCHANGED <<rest_vars, load_vars, sync_vars, connection_config, key_properties, retries, wait_time,
                   private_key, exit_status, attempts, slept, pipe_files>>

\* else: time.sleep(next(wait_time))
PollWait ==
    /\ pc = "poll_wait"
    /\ slept' = Append(slept, NextWait(wait_time))
    /\ wait_time' = Advance(wait_time)
    /\ pc' = "poll"
    /\ UNCHANGED <<rest_vars, load_vars, sync_vars, connection_config, key_properties, retries, history_resp,
                   private_key, outcome, exit_status, attempts, polls, sql_log,
                   logged, pipe_exists, pipe_files>>

\* configurations of the keys load_via_snowpipe reads
RetryValues == (0 - 1) .. MaxRetryCfg
KeyPaths == {"/keys/custom.p8"}
KeyPasswords == {"secret"}

\* a dict with only the keys K of d
Restrict(d, K) == [k \in K |-> d[k]]

PipeConfigs ==
    {Restrict(full, K) :
        full \in [max_retry : RetryValues,
                  private_key_path : KeyPaths,
                  private_key_password : KeyPasswords],
        K \in SUBSET {"max_retry", "private_key_path", "private_key_password"}}

InitPipe ==
    /\ connection_config \in PipeConfigs
    /\ key_properties \in {<<>>, <<"id">>}
    /\ pc = "create_pipe"
    /\ retries = 0
    /\ wait_time = increment_value(TRUE)
    /\ history_resp = <<>>
    /\ private_key = [path |-> None, password |-> None]
    /\ outcome = "running"
    /\ exit_status = None
    /\ attempts = 0
    /\ polls = 0
    /\ slept = <<>>
    /\ sql_log = <<>>
    /\ logged = {}
    /\ pipe_exists \in BOOLEAN
    /\ pipe_files \in SUBSET {OtherFile}
    /\ (pipe_files # {}) => pipe_exists
    /\ flatten_schema = OrdersSchema
    /\ staged = <<>>
    /\ table_rows = <<>>
    /\ copied_files = {}
    /\ load_log = <<>>
    /\ SyncIdle
    /\ RestIdle

NextPipe == CreatePipe \/ LoadKey \/ Submit \/ Backoff \/ Poll \/ PollWait

SpecPipe == InitPipe /\ [][NextPipe]_vars

\* load_via_snowpipe is sequential blocking code: it always takes its next step
FairPipe == SpecPipe /\ WF_vars(NextPipe)

----------------------------------------------------------------------------
(* Properties of load_via_snowpipe *)

\* the retry ceiling in force: connection_config.get('max_retry', 5)
ConfiguredMaxRetry == DictGet(connection_config, "max_retry", DefaultMaxRetry)

\* an ingest_files call has succeeded
SubmitSucceeded == pc \in {"poll", "poll_wait"} \/ polls > 0

\* the drop-pipe statement has been issued
DropIssued == \E i \in DOMAIN sql_log : sql_log[i] = "drop pipe"

\* C1: with max_retry = N >= 1 the submit is attempted at most N times; when
\* every attempt failed with an HTTP error the run fails after exactly N
\* attempts; when an attempt succeeds it is the last attempt (the attempts are
\* the failures so far plus one) and the load is polling or has polled.
C1_RetryUpToMax ==
    ConfiguredMaxRetry >= 1 =>
        /\ attempts <= ConfiguredMaxRetry
        /\ pc = "fatal" => /\ attempts = ConfiguredMaxRetry
                           /\ outcome \notin {"running", "returned"}
                           /\ polls = 0
        /\ SubmitSucceeded => /\ attempts = (ConfiguredMaxRetry - retries) + 1
                              /\ retries >= 1

C1_Witness ==
    /\ ConfiguredMaxRetry = 2
    /\ pc = "fatal"
    /\ attempts = 2

\* C2: for every max_retry, 0 and negative values included, the submit loop
\* ends: every execution eventually leaves the create/submit/backoff positions.
C2_SubmitLoopEnds ==
    <>(pc \notin {"create_pipe", "load_key", "submit", "backoff"})

\* C3: when the retries are exhausted the call ends by sys.exit(1) and not by
\* another error, and no history poll or drop-pipe statement follows.
C3_ExhaustionExitsWithStatus1 ==
    pc = "fatal" =>
        /\ outcome = "SystemExit"
        /\ exit_status = 1
        /\ polls = 0
        /\ ~DropIssued

\* C4: polling ends (the pipe is dropped) only when the returned history has
\* an entry for the staged file this call submitted.
C4_PollingEndsOnOwnFile ==
    DropIssued => \E i \in DOMAIN history_resp : history_resp[i] = s3_key

\* C5: a failing drop-pipe statement is only logged: once the drop has been
\* issued the call returns normally.
C5_DropFailureNotPropagated ==
    (pc = "end" /\ DropIssued) => outcome = "returned"

\* C6: the signing key is read from the configured private_key_path with the
\* configured private_key_password; the defaults apply only when a key is
\* not configured.
C6_KeyFromConfiguredPath ==
    private_key.path # None =>
        /\ private_key.path =
              DictGet(connection_config, "private_key_path", "/rsa_key.p8")
        /\ private_key.password =
              DictGet(connection_config, "private_key_password", None)

----------------------------------------------------------------------------
(* load_csv *)

\* lines of the staged file that are enumerated
MaxBatch == 2
\* rows the table holds before the first load that are enumerated
MaxInitRows == 1
\* load_csv calls in one behaviour
MaxLoads == 2

CellValues == {"1", "2"}

\* columns_with_trans: name and load transform of every flattened column
columns_with_trans(fs) ==
    [i \in 1 .. Len(Keys(fs)) |->
        [name  |-> safe_column_name(Keys(fs)[i]),
         trans |-> column_trans(fs[Keys(fs)[i]])]]

\* primary_column_names(stream_schema_message)
primary_column_names(kp) == [i \in DOMAIN kp |-> safe_column_name(kp[i])]

primary_key_merge_condition_FirstOnly(kp) ==
    [i \in {j \in DOMAIN kp : j = 1} |-> safe_column_name(kp[i])]

\* primary_key_merge_condition: the columns c of the AND-joined s.c = t.c
primary_key_merge_condition(kp) ==
    [i \in DOMAIN primary_column_names(kp) |-> primary_column_names(kp)[i]]

UsesMerge_MoreThanOneKey(kp) == Len(kp) > 1

\* `if len(self.stream_schema_message['key_properties']) > 0`
UsesMerge(kp) == Len(kp) > 0

\* merge_sql: MERGE INTO t USING (SELECT trans($i) name ...) s ON ...
\* WHEN MATCHED THEN UPDATE SET ... WHEN NOT MATCHED THEN INSERT (...) VALUES (...)
merge_sql(fs, kp) ==
    LET cols == columns_with_trans(fs)
    IN  [kind        |-> "MERGE",
         select      |-> [i \in DOMAIN cols |->
                            [trans |-> cols[i].trans, pos |-> i, name |-> cols[i].name]],
         on          |-> primary_key_merge_condition(kp),
         update_set  |-> [i \in DOMAIN cols |-> cols[i].name],
         insert_cols |-> [i \in DOMAIN cols |-> cols[i].name],
         values      |-> [i \in DOMAIN cols |-> cols[i].name]]

\* copy_sql: COPY INTO t (cols) FROM '@stage/s3_key'
copy_sql(fs) ==
    LET cols == columns_with_trans(fs)
    IN  [kind |-> "COPY", cols |-> [i \in DOMAIN cols |-> cols[i].name]]

\* the source rows of the MERGE: the select list names the cells by position
SourceRows(stmt, lines) ==
    [i \in DOMAIN lines |->
        [c \in {Unquote(stmt.select[j].name) : j \in DOMAIN stmt.select} |->
            LET j == CHOOSE j \in DOMAIN stmt.select : Unquote(stmt.select[j].name) = c
            IN  lines[i][stmt.select[j].pos]]]

\* the ON condition: equality on every column of the condition
Matches(src, tgt, on) ==
    \A j \in DOMAIN on : src[Unquote(on[j])] = tgt[Unquote(on[j])]

RECURSIVE UnmatchedFrom(_, _, _, _)
UnmatchedFrom(srcs, rows, on, i) ==
    IF i > Len(srcs) THEN <<>>
    ELSE (IF \E k \in DOMAIN rows : Matches(srcs[i], rows[k], on)
          THEN <<>> ELSE <<srcs[i]>>)
         \o UnmatchedFrom(srcs, rows, on, i + 1)

\* the warehouse executing the MERGE on the table: a target row matched by
\* several source rows is the nondeterministic-merge error; matched rows
\* take every column of the update list, unmatched source rows are inserted
ExecMerge(stmt, rows, lines) ==
    LET srcs == SourceRows(stmt, lines)
        hits(k) == {i \in DOMAIN srcs : Matches(srcs[i], rows[k], stmt.on)}
        inserted == UnmatchedFrom(srcs, rows, stmt.on, 1)
        matched == {k \in DOMAIN rows : hits(k) # {}}
        updated ==
            [k \in DOMAIN rows |->
                IF hits(k) = {} THEN rows[k]
                ELSE LET i == CHOOSE i \in hits(k) : TRUE
                     IN  [c \in DOMAIN rows[k] |->
                            IF \E u \in DOMAIN stmt.update_set : Unquote(stmt.update_set[u]) = c
                            THEN srcs[i][c] ELSE rows[k][c]]]
    IN  IF \E k \in DOMAIN rows : Cardinality(hits(k)) > 1
        THEN [error |-> "ProgrammingError", rows |-> rows, results |-> <<>>]
        ELSE [error |-> None,
              rows |-> updated \o inserted,
              results |-> <<("number of rows inserted" :> Len(inserted))
                            @@ ("number of rows updated" :> Cardinality(matched))>>]

\* the warehouse executing the COPY: a file the table's load metadata already
\* holds is skipped, otherwise every line is appended
ExecCopy(stmt, rows, lines, skipped) ==
    IF skipped
    THEN [error |-> None, rows |-> rows,
          results |-> <<("status" :> "LOAD_SKIPPED")>>]
    ELSE [error |-> None,
          rows |-> rows \o [i \in DOMAIN lines |->
                              [c \in {Unquote(stmt.cols[j]) : j \in DOMAIN stmt.cols} |->
                                 LET j == CHOOSE j \in DOMAIN stmt.cols : Unquote(stmt.cols[j]) = c
                                 IN  lines[i][j]]],
          results |-> <<("rows_loaded" :> Len(lines))>>]

\* load_csv(s3_key, count, size_bytes)
LoadCsv ==
    /\ Len(load_log) < MaxLoads
    /\ LET merge == UsesMerge(key_properties)
           stmt == IF merge THEN merge_sql(flatten_schema, key_properties)
                   ELSE copy_sql(flatten_schema)
           done == IF merge THEN ExecMerge(stmt, table_rows, staged)
                   ELSE ExecCopy(stmt, table_rows, staged, s3_key \in copied_files)
           inserts == IF Len(done.results) > 0
                      THEN DictGet(done.results[1],
                                   IF merge THEN "number of rows inserted" ELSE "rows_loaded", 0)
                      ELSE 0
           updates == IF merge /\ Len(done.results) > 0
                      THEN DictGet(done.results[1], "number of rows updated", 0)
                      ELSE 0
       IN  /\ table_rows' = done.rows
           /\ copied_files' = IF merge THEN copied_files ELSE copied_files \cup {s3_key}
           /\ load_log' = Append(load_log,
                 [statements  |-> <<stmt>>,
                  error       |-> done.error,
                  inserts     |-> IF done.error = None THEN inserts ELSE None,
                  updates     |-> IF done.error = None THEN updates ELSE None,
                  rows_before |-> Len(table_rows),
                  rows_after  |-> Len(done.rows)])
    /\ UNCHANGED <<rest_vars, connection_config, key_properties, pipe_vars, sync_vars,
                   flatten_schema, staged>>

\* load_via_snowpipe is not running
PipeIdle ==
    /\ pc = "idle"
    /\ retries = 0
    /\ wait_time = increment_value(TRUE)
    /\ history_resp = <<>>
    /\ private_key = [path |-> None, password |-> None]
    /\ outcome = "idle"
    /\ exit_status = None
    /\ attempts = 0
    /\ polls = 0
    /\ slept = <<>>
    /\ sql_log = <<>>
    /\ logged = {}
    /\ pipe_exists = FALSE
    /\ pipe_files = {}

\* the lines a staged file of the schema can hold, and the rows of its table
Lines(fs) == [1 .. Len(Keys(fs)) -> CellValues]
StoredRows(fs) == [{upper(n) : n \in DOMAIN fs} -> CellValues]

InitLoad ==
    /\ PipeIdle
    /\ connection_config = [file_format |-> "csv"]
    /\ flatten_schema = OrdersSchema
    /\ key_properties \in {<<>>, <<"id">>, <<"id", "region">>}
    /\ staged \in SeqsOver(Lines(flatten_schema), MaxBatch)
    /\ table_rows \in SeqsOver(StoredRows(flatten_schema), MaxInitRows)
    /\ copied_files = {}
    /\ load_log = <<>>
    /\ SyncIdle
    /\ RestIdle

NextLoad == LoadCsv

SpecLoad == InitLoad /\ [][NextLoad]_vars

----------------------------------------------------------------------------
(* Properties of load_csv *)

\* position of a column in the flattened schema's order
ColumnPos(fs, name) == CHOOSE i \in 1 .. Len(Keys(fs)) : Keys(fs)[i] = name

\* the staged rows have pairwise distinct keys
DistinctKeys ==
    \A i, j \in DOMAIN staged :
        i # j => \E k \in DOMAIN key_properties :
                    staged[i][ColumnPos(flatten_schema, key_properties[k])]
                        # staged[j][ColumnPos(flatten_schema, key_properties[k])]

\* C7: every load_csv call executes exactly one statement: with at least one
\* key property a MERGE whose ON condition equates every key column, else a
\* COPY; a COPY reports 0 updates and as inserts the rows the COPY appended.
C7_OneStatementPerBatch ==
    \A n \in DOMAIN load_log :
        LET call == load_log[n]
        IN  /\ Len(call.statements) = 1
            /\ Len(key_properties) > 0 =>
                  /\ call.statements[1].kind = "MERGE"
                  /\ Len(call.statements[1].on) = Len(key_properties)
                  /\ \A k \in DOMAIN key_properties :
                        call.statements[1].on[k] = Quote(upper(key_properties[k]))
            /\ Len(key_properties) = 0 =>
                  /\ call.statements[1].kind = "COPY"
                  /\ call.updates = 0
                  /\ call.inserts = call.rows_after - call.rows_before

C7_Witness ==
    /\ Len(load_log) = 1
    /\ key_properties = <<"id", "region">>
    /\ load_log[1].statements[1].kind = "MERGE"
    /\ Len(staged) = 2

\* C8: with key properties and pairwise distinct keys in the batch, loading
\* the batch twice into an empty table reports all inserts and no update on
\* the first pass, no insert and all updates on the second, and the table
\* has as many rows after the second pass as after the first.
C8_SecondLoadUpdatesOnly ==
    (/\ Len(load_log) >= 2
     /\ Len(key_properties) > 0
     /\ DistinctKeys
     /\ load_log[1].rows_before = 0)
    => /\ load_log[1].error = None /\ load_log[2].error = None
       /\ load_log[1].inserts = Len(staged) /\ load_log[1].updates = 0
       /\ load_log[2].inserts = 0 /\ load_log[2].updates = Len(staged)
       /\ load_log[2].rows_after = load_log[1].rows_after

C8_Witness ==
    /\ Len(load_log) = 2
    /\ key_properties = <<"id", "region">>
    /\ Len(staged) = 2
    /\ DistinctKeys
    /\ load_log[1].rows_before = 0
    /\ load_log[2].updates = 2

----------------------------------------------------------------------------
(* The warehouse catalog and the statements sent to it *)

\* sync_table calls in one behaviour
MaxCalls == 2
\* statements the environment makes fail in one behaviour
MaxInjected == 1

\* self.schema_name and stream_schema_message['stream'] of the model
schema_name == "analytics"
stream == <<"o", "r", "d", "e", "r", "s">>

\* table_name(stream_name, is_temporary, without_schema), for a stream name
\* that is set
sf_table_name(stream_dict, is_temporary) ==
    Lower(Replace(Replace(stream_dict.table_name, ".", "_"), "-", "_"))
        \o (IF is_temporary THEN <<"_", "t", "e", "m", "p">> ELSE <<>>)

table_name(stream_name, is_temporary, without_schema) ==
    (IF without_schema THEN "" ELSE schema_name \o ".")
        \o Quote(Text(Upper(sf_table_name(
               stream_name_to_dict(stream_name, DefaultSeparator), is_temporary))))

\* the table a statement's <schema>."<TABLE>" text names: an unquoted schema
\* folds to upper case, a quoted table name is taken as written
ResolveTable(text) ==
    CHOOSE t \in [schema : {upper(schema_name)}, table : Identifiers] :
        text = schema_name \o "." \o Quote(t.table)

\* the type SHOW COLUMNS reports for a declared column type
StoredType(declared) ==
    CASE declared = "number" -> "FIXED"
      [] declared = "float" -> "REAL"
      [] OTHER -> upper(declared)

ShownType_NoRealCase(stored) ==
    CASE stored = "FIXED" -> "NUMBER"
      [] OTHER -> stored

\* CASE type WHEN 'FIXED' THEN 'NUMBER' WHEN 'REAL' THEN 'FLOAT' ELSE type END
ShownType(stored) ==
    CASE stored = "FIXED" -> "NUMBER"
      [] stored = "REAL" -> "FLOAT"
      [] OTHER -> stored

\* get_table_columns(table_schemas): SHOW COLUMNS IN SCHEMA db.<schema>
get_table_columns(cat, table_schemas) ==
    {[SCHEMA_NAME |-> r.SCHEMA_NAME, TABLE_NAME |-> r.TABLE_NAME,
      COLUMN_NAME |-> r.COLUMN_NAME, DATA_TYPE |-> ShownType(r.TYPE)] :
        r \in {x \in cat : \E i \in DOMAIN table_schemas :
                              x.SCHEMA_NAME = upper(table_schemas[i])}}

\* get_tables(table_schemas): SHOW TERSE TABLES IN SCHEMA db.<schema>
get_tables(cat, table_schemas) ==
    {[SCHEMA_NAME |-> r.SCHEMA_NAME, TABLE_NAME |-> r.TABLE_NAME] :
        r \in {x \in cat : \E i \in DOMAIN table_schemas :
                              x.SCHEMA_NAME = upper(table_schemas[i])}}

\* self.table_cache is None, or a list of rows (kept as the set of its rows)
NoCache == [none |-> TRUE, rows |-> {}]
CacheOf(rows) == [none |-> FALSE, rows |-> rows]

\* `if self.table_cache`: None and the empty list are false
Truthy(cache) == ~cache.none /\ cache.rows # {}

\* a statement handed to self.query
Statement(op) ==
    [op |-> op, table |-> None, columns |-> <<>>, primary_key |-> <<>>,
     from |-> None, to |-> None, grantee |-> None]

show_tables == [Statement("show tables") EXCEPT !.table = upper(schema_name)]
show_columns == [Statement("show columns") EXCEPT !.table = schema_name]

\* create_table_query(is_temporary)
create_table_query(fs, kp, is_temporary) ==
    [Statement("create table") EXCEPT
        !.table = table_name(stream, is_temporary, FALSE),
        !.columns = [i \in 1 .. Len(Keys(fs)) |->
                        column_clause(Keys(fs)[i], fs[Keys(fs)[i]])],
        !.primary_key = IF Len(kp) # 0 THEN primary_column_names(kp) ELSE <<>>]

\* add_column(column, stream)
add_column(column) ==
    [Statement("add column") EXCEPT
        !.table = table_name(stream, FALSE, FALSE), !.columns = <<column>>]

\* version_column(column_name, stream)
version_column(column_name, stamp) ==
    [Statement("rename column") EXCEPT
        !.table = table_name(stream, FALSE, FALSE),
        !.from = column_name,
        !.to = Quote(Unquote(column_name) \o "_" \o stamp)]

\* drop_column(column_name, stream); update_columns has its call commented out
drop_column(column_name) ==
    [Statement("drop column") EXCEPT
        !.table = table_name(stream, FALSE, FALSE), !.from = column_name]

\* grant_select_on_all_tables_in_schema(schema_name, grantee)
grant_select_on_all_tables_in_schema(schema, grantee) ==
    [Statement("grant select") EXCEPT !.table = schema, !.grantee = grantee]

grant_privilege_ListOnly(schema, g) ==
    CASE g.kind = "list" ->
            [i \in DOMAIN g.value |->
                grant_select_on_all_tables_in_schema(schema, g.value[i])]
      [] OTHER -> <<>>

\* grant_privilege(schema, grantees, grant_method): one call per role of a
\* list, one call for a str, none otherwise
grant_privilege(schema, g) ==
    CASE g.kind = "list" ->
            [i \in DOMAIN g.value |->
                grant_select_on_all_tables_in_schema(schema, g.value[i])]
      [] g.kind = "str" -> <<grant_select_on_all_tables_in_schema(schema, g.value)>>
      [] OTHER -> <<>>

TableRows(cat, t) ==
    {r \in cat : r.SCHEMA_NAME = t.schema /\ r.TABLE_NAME = t.table}

\* the warehouse executing one statement on the catalog
Apply(stmt, cat) ==
    CASE stmt.op = "create table" ->
            LET t == ResolveTable(stmt.table)
                names == {Unquote(stmt.columns[i].name) : i \in DOMAIN stmt.columns}
            IN  IF TableRows(cat, t) # {} THEN [error |-> None, cat |-> cat]
                ELSE IF stmt.columns = <<>> \/ Cardinality(names) # Len(stmt.columns)
                THEN [error |-> "ProgrammingError", cat |-> cat]
                ELSE [error |-> None,
                      cat |-> cat \cup
                        {[SCHEMA_NAME |-> t.schema, TABLE_NAME |-> t.table,
                          COLUMN_NAME |-> Unquote(stmt.columns[i].name),
                          TYPE |-> StoredType(stmt.columns[i].type)] :
                            i \in DOMAIN stmt.columns}]
      [] stmt.op = "add column" ->
            LET t == ResolveTable(stmt.table)
                c == Unquote(stmt.columns[1].name)
            IN  IF TableRows(cat, t) = {}
                   \/ \E r \in TableRows(cat, t) : r.COLUMN_NAME = c
                THEN [error |-> "ProgrammingError", cat |-> cat]
                ELSE [error |-> None,
                      cat |-> cat \cup
                        {[SCHEMA_NAME |-> t.schema, TABLE_NAME |-> t.table,
                          COLUMN_NAME |-> c,
                          TYPE |-> StoredType(stmt.columns[1].type)]}]
      [] stmt.op = "rename column" ->
            LET t == ResolveTable(stmt.table)
                old == {r \in TableRows(cat, t) : r.COLUMN_NAME = Unquote(stmt.from)}
            IN  IF old = {} \/ \E r \in TableRows(cat, t) : r.COLUMN_NAME = Unquote(stmt.to)
                THEN [error |-> "ProgrammingError", cat |-> cat]
                ELSE [error |-> None,
                      cat |-> (cat \ old) \cup
                        {[r EXCEPT !.COLUMN_NAME = Unquote(stmt.to)] : r \in old}]
      [] stmt.op = "drop column" ->
            LET t == ResolveTable(stmt.table)
                old == {r \in TableRows(cat, t) : r.COLUMN_NAME = Unquote(stmt.from)}
            IN  IF old = {} THEN [error |-> "ProgrammingError", cat |-> cat]
                ELSE [error |-> None, cat |-> cat \ old]
      [] OTHER -> [error |-> None, cat |-> cat]

RECURSIVE RunFrom_Rollback(_, _, _, _)
RunFrom_Rollback(stmts, i, cat, fail_at) ==
    IF i > Len(stmts) THEN [cat |-> cat, executed |-> Len(stmts), error |-> None]
    ELSE IF i = fail_at THEN [cat |-> cat, executed |-> i, error |-> "ProgrammingError"]
    ELSE LET r == Apply(stmts[i], cat)
         IN  IF r.error # None THEN [cat |-> cat, executed |-> i, error |-> r.error]
             ELSE LET rest == RunFrom_Rollback(stmts, i + 1, r.cat, fail_at)
                  IN  IF rest.error # None THEN [rest EXCEPT !.cat = cat] ELSE rest

\* self.query on each statement in turn; the first error ends the call
RECURSIVE RunFrom(_, _, _, _)
RunFrom(stmts, i, cat, fail_at) ==
    IF i > Len(stmts) THEN [cat |-> cat, executed |-> Len(stmts), error |-> None]
    ELSE IF i = fail_at THEN [cat |-> cat, executed |-> i, error |-> "ProgrammingError"]
    ELSE LET r == Apply(stmts[i], cat)
         IN  IF r.error # None THEN [cat |-> cat, executed |-> i, error |-> r.error]
             ELSE RunFrom(stmts, i + 1, r.cat, fail_at)

----------------------------------------------------------------------------
(* update_columns and sync_table *)

TableColumns_AnyTable(all_table_columns) ==
    {x \in all_table_columns : x.SCHEMA_NAME = upper(schema_name)}

\* the cached or live rows of the stream's table
TableColumns(all_table_columns) ==
    {x \in all_table_columns :
        /\ x.SCHEMA_NAME = upper(schema_name)
        /\ Quote(upper(x.TABLE_NAME)) = table_name(stream, FALSE, TRUE)}

\* columns_dict
columns_dict(columns) ==
    [n \in {upper(c.COLUMN_NAME) : c \in columns} |->
        CHOOSE c \in columns : upper(c.COLUMN_NAME) = n]

\* names of columns_to_add, in the flattened schema's order
columns_to_add(fs, dict) ==
    SelectSeq(Keys(fs), LAMBDA name : upper(name) \notin DOMAIN dict)

NeedsReplace_NoDateTimeGuard(fs, dict, name) ==
    /\ upper(name) \in DOMAIN dict
    /\ upper(dict[upper(name)].DATA_TYPE) # upper(column_type(fs[name]))

\* the condition of columns_to_replace
NeedsReplace(fs, dict, name) ==
    /\ upper(name) \in DOMAIN dict
    /\ upper(dict[upper(name)].DATA_TYPE) # upper(column_type(fs[name]))
    /\ upper(column_type(fs[name])) # "TIMESTAMP_NTZ"

\* names of columns_to_replace, in the flattened schema's order
columns_to_replace(fs, dict) ==
    SelectSeq(Keys(fs), LAMBDA name : NeedsReplace(fs, dict, name))

RECURSIVE ReplaceStatements_AddFirst(_, _, _, _)
ReplaceStatements_AddFirst(fs, names, stamp, i) ==
    IF i > Len(names) THEN <<>>
    ELSE <<add_column(column_clause(names[i], fs[names[i]])),
           version_column(safe_column_name(names[i]), stamp)>>
         \o ReplaceStatements_AddFirst(fs, names, stamp, i + 1)

RECURSIVE ReplaceStatements_Drop(_, _, _, _)
ReplaceStatements_Drop(fs, names, stamp, i) ==
    IF i > Len(names) THEN <<>>
    ELSE <<drop_column(safe_column_name(names[i])),
           add_column(column_clause(names[i], fs[names[i]]))>>
         \o ReplaceStatements_Drop(fs, names, stamp, i + 1)

RECURSIVE ReplaceStatements(_, _, _, _)
ReplaceStatements(fs, names, stamp, i) ==
    IF i > Len(names) THEN <<>>
    ELSE <<version_column(safe_column_name(names[i]), stamp),
           add_column(column_clause(names[i], fs[names[i]]))>>
         \o ReplaceStatements(fs, names, stamp, i + 1)

update_columns_AlwaysRefresh(cache, cat, fs, stamp) ==
    LET all_table_columns == IF Truthy(cache) THEN cache.rows
                             ELSE get_table_columns(cat, <<schema_name>>)
        dict == columns_dict(TableColumns(all_table_columns))
        adds == columns_to_add(fs, dict)
        replaces == columns_to_replace(fs, dict)
    IN  [branch  |-> "update",
         stmts   |-> (IF Truthy(cache) THEN <<>> ELSE <<show_columns>>)
                     \o [i \in DOMAIN adds |->
                            add_column(column_clause(adds[i], fs[adds[i]]))]
                     \o ReplaceStatements(fs, replaces, stamp, 1)
                     \o (IF Truthy(cache) THEN <<show_columns>> ELSE <<>>),
         refresh |-> Truthy(cache)]

\* update_columns: the statements it issues, in order, and whether it ends
\* by replacing the cache
update_columns(cache, cat, fs, stamp) ==
    LET all_table_columns == IF Truthy(cache) THEN cache.rows
                             ELSE get_table_columns(cat, <<schema_name>>)
        dict == columns_dict(TableColumns(all_table_columns))
        adds == columns_to_add(fs, dict)
        replaces == columns_to_replace(fs, dict)
        refresh == Truthy(cache) /\ (Len(adds) > 0 \/ Len(replaces) # 0)
    IN  [branch  |-> "update",
         stmts   |-> (IF Truthy(cache) THEN <<>> ELSE <<show_columns>>)
                     \o [i \in DOMAIN adds |->
                            add_column(column_clause(adds[i], fs[adds[i]]))]
                     \o ReplaceStatements(fs, replaces, stamp, 1)
                     \o (IF refresh THEN <<show_columns>> ELSE <<>>),
         refresh |-> refresh]

\* found_tables of sync_table
found_tables(cache, cat) ==
    IF Truthy(cache) THEN TableColumns(cache.rows)
    ELSE {t \in get_tables(cat, <<upper(schema_name)>>) :
            Quote(upper(t.TABLE_NAME)) = table_name(stream, FALSE, TRUE)}

\* sync_table: the statements it issues, in order
sync_table(cache, cat, fs, kp, g, stamp) ==
    LET lookup == IF Truthy(cache) THEN <<>> ELSE <<show_tables>>
    IN  IF Cardinality(found_tables(cache, cat)) = 0
        THEN [branch  |-> "create",
              stmts   |-> lookup
                          \o <<create_table_query(fs, kp, FALSE)>>
                          \o grant_privilege(schema_name, g)
                          \o (IF Truthy(cache) THEN <<show_columns>> ELSE <<>>),
              refresh |-> Truthy(cache)]
        ELSE LET u == update_columns(cache, cat, fs, stamp)
             IN  [u EXCEPT !.stmts = lookup \o u.stmts]

\* the cache shows the stream's schema as a live introspection would
CacheAgrees(cache, cat) ==
    Truthy(cache) =>
        {x \in cache.rows : x.SCHEMA_NAME = upper(schema_name)}
            = get_table_columns(cat, <<schema_name>>)

\* longest statement list of a call: lookup, rename and add per column, refresh
MaxStatements == 2 * Len(SortedNames) + 2

\* how the warehouse answers the SHOW statements of get_tables and
\* get_table_columns in one call: with rows, with the error code and text
\* their except clauses look for, or with another ProgrammingError
IntrospectionResponses == {"ok", "does not exist", "ProgrammingError"}

KnownMissing_Never(response) == FALSE

\* re.match('002043 \(02000\):.*\n.*does not exist.*', ...) in get_tables,
\* re.match('002003 \(02000\):.*\n.*does not exist or not authorized.*', ...)
\* in get_table_columns
KnownMissing(response) == response = "does not exist"

\* `pass` for the known error, `raise exc` for every other one
Reraised(response) == response # "ok" /\ ~KnownMissing(response)

\* the rows the introspection of the stream's schema gives back: none when
\* its error was passed over
Visible(cat, response) ==
    IF response = "ok" THEN cat
    ELSE {x \in cat : x.SCHEMA_NAME # upper(schema_name)}

IsIntrospection(stmt) == stmt.op \in {"show tables", "show columns"}

\* the statement at which the call ends by an error of the environment: the
\* first SHOW statement when the introspection error is raised again, the
\* injected fail_at otherwise
FailingAt(stmts, fail_at, response) ==
    IF Reraised(response) /\ \E i \in DOMAIN stmts : IsIntrospection(stmts[i])
    THEN CHOOSE i \in DOMAIN stmts :
            /\ IsIntrospection(stmts[i])
            /\ \A j \in 1 .. i - 1 : ~IsIntrospection(stmts[j])
    ELSE fail_at

\* one call of sync_table (update_columns included, when the table is found):
\* its statements run against the warehouse until one fails, by itself or
\* because the environment makes statement fail_at fail; the cache is
\* replaced when the call gets to it
SyncTable ==
    \E fail_at \in 0 .. MaxStatements, response \in IntrospectionResponses :
      /\ Len(calls) < MaxCalls
      /\ fail_at > 0 \/ response # "ok" => injected < MaxInjected
      /\ fail_at > 0 => response = "ok"
      /\ \E view \in {Visible(live, response)} :
          \E plan \in {sync_table(table_cache, view, flatten_schema,
                                  key_properties, grantees, now)} :
           \E r \in {RunFrom(plan.stmts, 1, live,
                             FailingAt(plan.stmts, fail_at, response))} :
            /\ fail_at <= Len(plan.stmts)
            /\ response # "ok" =>
                  \E i \in 1 .. r.executed : IsIntrospection(plan.stmts[i])
            /\ injected' = injected
                              + (IF fail_at > 0 \/ response # "ok" THEN 1 ELSE 0)
            /\ live' = r.cat
            /\ table_cache' = IF r.error = None /\ plan.refresh
                              THEN CacheOf(get_table_columns(Visible(r.cat, response),
                                                             <<schema_name>>))
                              ELSE table_cache
            /\ calls' = Append(calls,
                  [op           |-> "sync_table",
                   branch       |-> plan.branch,
                   statements   |-> SubSeq(plan.stmts, 1, r.executed),
                   error        |-> r.error,
                   response     |-> response,
                   saw_live     |-> /\ CacheAgrees(table_cache, live)
                                    /\ Truthy(table_cache) \/ response = "ok",
                   used_cache   |-> Truthy(table_cache),
                   cache_before |-> table_cache,
                   live_before  |-> live])
            /\ UNCHANGED <<rest_vars, connection_config, key_properties, pipe_vars, load_vars,
                           grantees, now>>

\* the flattened schemas, catalogs and caches the model starts from
IdProperties == {IntegerProperty, NumberProperty}
TsProperties == {DateTimeProperty, StringProperty}

SyncSchemas ==
    {[id |-> p] : p \in IdProperties} \cup {[ts |-> q] : q \in TsProperties}
    \cup {[id |-> p, ts |-> q] : p \in IdProperties, q \in TsProperties}

ColumnRow(table, column, type) ==
    [SCHEMA_NAME |-> "ANALYTICS", TABLE_NAME |-> table,
     COLUMN_NAME |-> column, TYPE |-> type]

\* another table of the same schema, always there
OtherRows == {ColumnRow("CUSTOMERS", "ID", "FIXED")}

OrdersTables ==
    {{}, {ColumnRow("ORDERS", "REGION", "TEXT")}}
         \cup {{ColumnRow("ORDERS", "ID", t)} : t \in {"FIXED", "TEXT"}}
         \cup {{ColumnRow("ORDERS", "TS", t)} : t \in {"TIMESTAMP_TZ", "TEXT"}}
         \cup {{ColumnRow("ORDERS", "ID", t), ColumnRow("ORDERS", "TS", u)} :
                 t \in {"FIXED", "TEXT"}, u \in {"TIMESTAMP_TZ", "TEXT"}}

Catalogs == {OtherRows \cup t : t \in OrdersTables}

\* caches whose rows spell the schema or the table of the stream in lower case
LowerCaseSchema(rows) == {[r EXCEPT !.SCHEMA_NAME = lower(r.SCHEMA_NAME)] : r \in rows}
LowerCaseTable(rows) == {[r EXCEPT !.TABLE_NAME = lower(r.TABLE_NAME)] : r \in rows}

RecasedCaches ==
    LET rows == get_table_columns({ColumnRow("ORDERS", "ID", "FIXED")}, <<schema_name>>)
    IN  {CacheOf(LowerCaseSchema(rows)), CacheOf(LowerCaseTable(rows))}

Grantees ==
    {[kind |-> "none", value |-> <<>>],
     [kind |-> "str", value |-> <<"reader">>],
     [kind |-> "list", value |-> <<"reader", "analyst">>]}

InitSync ==
    /\ PipeIdle
    /\ connection_config = [default_target_schema |-> schema_name]
    /\ staged = <<>>
    /\ table_rows = <<>>
    /\ copied_files = {}
    /\ load_log = <<>>
    /\ flatten_schema \in SyncSchemas
    /\ key_properties \in {<<>>, <<"id">>}
    /\ Len(key_properties) > 0 => "id" \in DOMAIN flatten_schema
    /\ grantees \in Grantees
    /\ live \in Catalogs
    /\ table_cache \in {NoCache, CacheOf({})}
            \cup {CacheOf(get_table_columns(c, <<schema_name>>)) : c \in Catalogs}
            \cup RecasedCaches
    /\ now \in Stamps
    /\ injected = 0
    /\ calls = <<>>
    /\ RestIdle

NextSync == SyncTable

SpecSync == InitSync /\ [][NextSync]_vars

----------------------------------------------------------------------------
(* Properties of sync_table and update_columns *)

\* the add-column and rename-column statements of a call
DDL(call) ==
    SelectSeq(call.statements, LAMBDA q : q.op \in {"add column", "rename column"})

\* the stream's table, as the statements of the program name it
StreamTable == ResolveTable(table_name(stream, FALSE, FALSE))

\* the live table of the stream exists and has every flattened column
TableHasSchema ==
    /\ TableRows(live, StreamTable) # {}
    /\ \A name \in DOMAIN flatten_schema :
          \E r \in TableRows(live, StreamTable) :
              r.COLUMN_NAME = Unquote(safe_column_name(name))

\* C9: when an update_columns pass that diffed the live columns has applied
\* its add and version-and-add statements without error, the next
\* update_columns pass issues no add-column and no rename-column statement.
C9_SecondPassIsEmpty ==
    \A n \in DOMAIN calls :
        (/\ n + 1 \in DOMAIN calls
         /\ calls[n].branch = "update" /\ calls[n].error = None
         /\ calls[n].saw_live
         /\ calls[n + 1].branch = "update")
        => DDL(calls[n + 1]) = <<>>

C9_Witness ==
    /\ Len(calls) = 2
    /\ calls[1].branch = "update" /\ calls[1].error = None /\ calls[1].saw_live
    /\ Len(DDL(calls[1])) = 3
    /\ calls[2].branch = "update" /\ calls[2].error = None
    /\ DDL(calls[2]) = <<>>

\* C10 as stated: after sync_table returns without error the stream's table
\* exists in the live warehouse with every flattened column, whatever the
\* cache holds.
C10_TableMatchesAfterSync ==
    (Len(calls) > 0 /\ calls[Len(calls)].error = None) => TableHasSchema

\* C10 amended: the same, for calls made without a cache whose
\* introspection is answered with rows, or with a cache that shows the
\* stream's schema as the live warehouse has it.
C10_TableMatchesAfterSyncFromLiveView ==
    (/\ Len(calls) > 0
     /\ calls[Len(calls)].error = None
     /\ calls[Len(calls)].saw_live)
    => TableHasSchema

C10_Witness ==
    /\ Len(calls) = 1
    /\ calls[1].error = None
    /\ calls[1].used_cache /\ calls[1].saw_live
    /\ calls[1].branch = "update"
    /\ Len(DDL(calls[1])) = 3
    /\ TableHasSchema

----------------------------------------------------------------------------
(* The module-level flattening functions under call *)

\* longest path segment that is enumerated
MaxSegment == 257
\* largest data_flattening_max_level that is enumerated
MaxLevel == 2

\* load_csv has not been called
LoadIdle ==
    /\ flatten_schema = OrdersSchema
    /\ staged = <<>>
    /\ table_rows = <<>>
    /\ copied_files = {}
    /\ load_log = <<>>

\* no method of a DbSync object is running
ObjectIdle ==
    /\ connection_config = [default_target_schema |-> schema_name]
    /\ key_properties = <<>>
    /\ PipeIdle
    /\ LoadIdle
    /\ SyncIdle

Repeat(c, n) == [i \in 1 .. n |-> c]

\* property names
k_id == <<"i", "d">>
k_payload == <<"p", "a", "y", "l", "o", "a", "d">>
k_x == <<"x">>
k_a == <<"a">>
k_b == <<"b">>
k_c == <<"c">>
k_tag == <<"t", "a", "g">>
k_a__b == k_a \o DefaultSep \o k_b
k_a__b__c == k_a__b \o DefaultSep \o k_c
k_order_id == <<"o", "r", "d", "e", "r", "_", "i", "d">>

\* names of NameLimit characters that differ in one character before the
\* underscore, and one that differs after it
k_long_xy == Repeat("x", NameLimit - 2) \o <<"_", "y">>
k_long_xyy == Repeat("x", NameLimit - 3) \o <<"y", "_", "y">>
k_long_xz == Repeat("x", NameLimit - 2) \o <<"_", "z">>

\* path segments handed to flatten_key
LongLengths == {NameLimit - 1, NameLimit, MaxSegment}
HalfLength == NameLimit \div 2
Segments ==
    {k_id, k_payload, k_x, k_order_id, k_long_xy, k_long_xyy}
    \cup {Repeat(c, n) : c \in {"a", "A", "7", "_"}, n \in LongLengths}
    \cup {[i \in 1 .. n |-> IF i % 2 = 1 THEN "a" ELSE "B"] : n \in LongLengths}
    \cup {Repeat(c, HalfLength) : c \in {"a", "A"}}

FlattenKeyCalls ==
    {[fn |-> "flatten_key", k |-> k, parent_key |-> parent, sep |-> DefaultSep] :
        k \in Segments, parent \in {<<>>} \cup {<<seg>> : seg \in Segments}}

\* the type _should_json_dump_value looks for
NullableStructured == {"null", "object", "array"}

\* schema nodes
Leaf(types) == [type |-> types]
Object(properties) == [type |-> {"object"}, properties |-> properties]
AnyOf(alternatives) == [anyOf |-> alternatives]

\* the schema of the app-events stream
AppEvents ==
    [properties |-> <<
        <<k_id, Leaf({"integer"})>>,
        <<k_payload, Object(<< <<k_x, Leaf({"string"})>> >>)>> >>]

\* schemas handed to flatten_schema
Schemas ==
    {AppEvents,
     \* an object without declared properties
     [properties |-> << <<k_id, Leaf({"integer"})>>,
                        <<k_payload, Leaf({"null", "object"})>> >>],
     \* a leaf and a nested property of the same flattened name
     [properties |-> << <<k_a__b, Leaf({"string"})>>,
                        <<k_a, Object(<< <<k_b, Leaf({"integer"})>> >>)>> >>],
     \* the same two levels further down
     [properties |-> <<
        <<k_a__b__c, Leaf({"string"})>>,
        <<k_a, Object(<< <<k_b, Object(<< <<k_c, Leaf({"integer"})>> >>)>> >>)>> >>],
     \* siblings whose names are the same after compression, and siblings
     \* whose names stay apart
     [properties |-> << <<k_long_xy, Leaf({"string"})>>,
                        <<k_long_xyy, Leaf({"integer"})>> >>],
     [properties |-> << <<k_long_xy, Leaf({"string"})>>,
                        <<k_long_xz, Leaf({"integer"})>> >>],
     [properties |-> <<
        <<k_payload, Object(<< <<k_long_xy, Leaf({"string"})>>,
                               <<k_long_xyy, Leaf({"integer"})>> >>)>> >>],
     \* a union property
     [properties |-> << <<k_tag, AnyOf(<<[type_str |-> "string"],
                                         [type_str |-> "integer"]>>)>>,
                        <<k_id, Leaf({"integer"})>> >>],
     [properties |-> << <<k_tag, AnyOf(<<[type |-> {"string"}]>>)>>,
                        <<k_id, Leaf({"integer"})>> >>],
     [properties |-> << <<k_tag, AnyOf(<<[type_str |-> "integer"],
                                         [type_str |-> "string"]>>)>>,
                        <<k_id, Leaf({"integer"})>> >>],
     [properties |-> << <<k_tag, AnyOf(<<[type_str |-> "array"]>>)>>,
                        <<k_id, Leaf({"integer"})>> >>],
     \* a column of the nullable structured type, at the top and below it
     [properties |-> << <<k_x, Leaf(NullableStructured)>>,
                        <<k_id, Leaf({"integer"})>> >>],
     [properties |-> <<
        <<k_payload, Object(<< <<k_x, Leaf(NullableStructured)>> >>)>> >>],
     \* such a column at the top and a scalar property of its name below
     [properties |-> <<
        <<k_x, Leaf(NullableStructured)>>,
        <<k_payload, Object(<< <<k_x, Leaf({"string"})>> >>)>> >>],
     \* a node without properties
     Leaf({"object"})}

FlattenSchemaCalls ==
    {[fn |-> "flatten_schema", d |-> d, given |-> d, max_level |-> m] :
        d \in Schemas, m \in 0 .. MaxLevel}

\* the JSON values that conform to a schema node, and the records (dicts in
\* the order of the schema) that conform to a dict of properties
RECURSIVE ValuesOf(_)
RECURSIVE RecordsFrom(_, _)
ValuesOf(node) ==
    IF "type" \notin DOMAIN node
    THEN {[t |-> "str", v |-> "a"]}
    ELSE (IF "null" \in node.type THEN {[t |-> "null", v |-> None]} ELSE {})
         \cup (IF "integer" \in node.type THEN {[t |-> "int", v |-> 7]} ELSE {})
         \cup (IF "string" \in node.type THEN {[t |-> "str", v |-> "a"]} ELSE {})
         \cup (IF "object" \in node.type
               THEN IF "properties" \in DOMAIN node
                    THEN {[t |-> "dict", v |-> r] :
                            r \in RecordsFrom(node.properties, 1)}
                    ELSE {[t |-> "dict", v |-> << <<k_x, [t |-> "str", v |-> "a"]>> >>]}
               ELSE {})
         \cup (IF "array" \in node.type
               THEN {[t |-> "list", v |-> <<[t |-> "int", v |-> 7]>>]}
               ELSE {})

RecordsFrom(properties, i) ==
    IF i > Len(properties) THEN {<<>>}
    ELSE LET rest == RecordsFrom(properties, i + 1)
         IN  rest \cup {<< <<properties[i][1], val>> >> \o r :
                           val \in ValuesOf(properties[i][2]), r \in rest}

FlattenRecordCalls ==
    UNION {{[fn |-> "flatten_record", d |-> c.d, given |-> c.d,
             max_level |-> c.max_level, record |-> r] : r \in RecordsFrom(c.d.properties, 1)} :
           c \in {x \in FlattenSchemaCalls : "properties" \in DOMAIN x.d}}

\* flatten_key(k, parent_key, sep)
FlattenKey ==
    /\ pure_call.fn = "flatten_key"
    /\ ~pure_result.done
    /\ pure_result' = [done |-> TRUE, error |-> None,
                       value |-> flatten_key(pure_call.k, pure_call.parent_key,
                                             pure_call.sep)]
    /\ UNCHANGED <<connection_config, key_properties, pipe_vars, load_vars,
                   sync_vars, pure_call, dbsync, conn_vars>>

\* flatten_schema(schema, max_level=...), as DbSync.__init__ calls it
FlattenSchema ==
    /\ pure_call.fn = "flatten_schema"
    /\ ~pure_result.done
    /\ \E r \in {flatten_schema_of(pure_call.d, <<>>, DefaultSep, 0,
                                    pure_call.max_level)} :
           /\ pure_result' = [done |-> TRUE, error |-> r.error, value |-> r.items]
           /\ pure_call' = [pure_call EXCEPT !.d = r.d]
    /\ UNCHANGED <<connection_config, key_properties, pipe_vars, load_vars,
                   sync_vars, dbsync, conn_vars>>

\* flatten_schema called once more with the schema object and the max_level
\* of a call that has returned
FlattenSchemaAgain ==
    /\ pure_call.fn = "flatten_schema"
    /\ pure_result.done
    /\ pure_result.error = None
    /\ "again" \notin DOMAIN pure_result
    /\ \E r \in {flatten_schema_of(pure_call.d, <<>>, DefaultSep, 0,
                                    pure_call.max_level)} :
           /\ pure_result' = [done |-> TRUE, error |-> None,
                              value |-> pure_result.value,
                              again |-> [error |-> r.error, value |-> r.items]]
           /\ pure_call' = [pure_call EXCEPT !.d = r.d]
    /\ UNCHANGED <<connection_config, key_properties, pipe_vars, load_vars,
                   sync_vars, dbsync, conn_vars>>

\* flatten_record(record, self.flatten_schema, max_level=...), as
\* record_to_csv_line calls it with the flattened schema of __init__
FlattenRecord ==
    /\ pure_call.fn = "flatten_record"
    /\ ~pure_result.done
    /\ \E r \in {flatten_schema_of(pure_call.d, <<>>, DefaultSep, 0,
                                    pure_call.max_level)} :
           /\ pure_result' =
                [done |-> TRUE, error |-> r.error, flatten_schema |-> r.items,
                 value |-> IF r.error = None
                           THEN flatten_record(pure_call.record, r.items,
                                               pure_call.max_level)
                           ELSE <<>>]
           /\ pure_call' = [pure_call EXCEPT !.d = r.d]
    /\ UNCHANGED <<connection_config, key_properties, pipe_vars, load_vars,
                   sync_vars, dbsync, conn_vars>>

InitFlatten ==
    /\ ObjectIdle
    /\ InitIdle
    /\ ConnIdle
    /\ pure_call \in FlattenKeyCalls \cup FlattenSchemaCalls \cup FlattenRecordCalls
    /\ pure_result = [done |-> FALSE]

NextFlatten == FlattenKey \/ FlattenSchema \/ FlattenSchemaAgain \/ FlattenRecord

SpecFlatten == InitFlatten /\ [][NextFlatten]_vars

----------------------------------------------------------------------------
(* Properties of the flattening functions *)

Returned(fn) == pure_result.done /\ pure_call.fn = fn

\* the keys of the dict a call returned
ReturnedKeys == KeySet(pure_result.value)

\* C11: every name flatten_key produces, and so every key of flatten_schema
\* and flatten_record, has at most 255 characters, and a path whose joined
\* name is under the limit is returned as joined.
C11_NamesWithinLimit ==
    /\ Returned("flatten_key") =>
          LET joined == Join(pure_call.sep, Append(pure_call.parent_key, pure_call.k))
          IN  /\ Len(pure_result.value) <= NameLimit
              /\ Len(joined) < NameLimit => pure_result.value = joined
    /\ (Returned("flatten_schema") \/ Returned("flatten_record")) =>
          \A name \in ReturnedKeys : Len(name) <= NameLimit

\* the paths of the source properties that become columns: the properties
\* flatten_schema does not descend into
RECURSIVE Leaves(_, _, _, _)
Leaves(node, path, level, max_level) ==
    IF "properties" \notin DOMAIN node THEN {}
    ELSE UNION {
        LET k == node.properties[i][1]
            v == node.properties[i][2]
        IN  IF "type" \in DOMAIN v
            THEN IF "object" \in v.type /\ "properties" \in DOMAIN v /\ level < max_level
                 THEN Leaves(v, Append(path, k), level + 1, max_level)
                 ELSE {Append(path, k)}
            ELSE IF /\ "anyOf" \in DOMAIN v
                    /\ "type_str" \in DOMAIN v.anyOf[1]
                    /\ v.anyOf[1].type_str \in {"string", "array", "object"}
                 THEN {Append(path, k)}
                 ELSE {} : i \in DOMAIN node.properties}

\* the column name of a source property
ColumnName(path) ==
    flatten_key(path[Len(path)], SubSeq(path, 1, Len(path) - 1), DefaultSep)

GivenLeaves == Leaves(pure_call.given, <<>>, 0, pure_call.max_level)

\* two source properties of the schema under call have one column name
Collision(p, q) == p # q /\ ColumnName(p) = ColumnName(q)

\* C12: when two distinct source properties flatten to the same column name,
\* at any depth and also when the names are equal only after compression,
\* flatten_schema raises the duplicate-column error; a result that is
\* returned holds a column for both.
C12_DuplicateRaises ==
    Returned("flatten_schema") =>
        /\ (\E p \in GivenLeaves, q \in GivenLeaves : Collision(p, q))
              => pure_result.error = "ValueError"
        /\ pure_result.error = None =>
              /\ \A p \in GivenLeaves : ColumnName(p) \in ReturnedKeys
              /\ Len(pure_result.value) = Cardinality(GivenLeaves)

\* a duplicate that exists only after compression was raised, below the top
\* level
C12_Witness ==
    /\ Returned("flatten_schema")
    /\ pure_result.error = "ValueError"
    /\ \E p \in GivenLeaves, q \in GivenLeaves :
          /\ Collision(p, q)
          /\ Len(p) > 1
          /\ Join(DefaultSep, p) # Join(DefaultSep, q)

\* the property at a path is present in a record
RECURSIVE Present(_, _)
Present(record, path) ==
    /\ HasKey(record, path[1])
    /\ Len(path) > 1 =>
          /\ Lookup(record, path[1]).t = "dict"
          /\ Present(Lookup(record, path[1]).v, Tail(path))

\* C13: for a schema without duplicate flattened keys and a conforming
\* record, flatten_record does not raise and its result has a value under
\* the flatten_schema column name of every leaf column whose source property
\* is present in the record.
C13_RecordCoversSchema ==
    (Returned("flatten_record") /\ pure_result.error = None) =>
        \A p \in GivenLeaves :
            Present(pure_call.record, p) =>
                /\ HasKey(pure_result.flatten_schema, ColumnName(p))
                /\ HasKey(pure_result.value, ColumnName(p))

\* the record {"id": 7, "payload": {"x": "a"}}
AppEventsRecord ==
    << <<k_id, [t |-> "int", v |-> 7]>>,
       <<k_payload, [t |-> "dict", v |-> << <<k_x, [t |-> "str", v |-> "a"]>> >>]>> >>

AppEventsCall ==
    /\ Returned("flatten_record")
    /\ pure_call.given = AppEvents
    /\ pure_call.max_level = 1
    /\ pure_call.record = AppEventsRecord

\* the column clauses of a flattened schema
ColumnClauses(fs) == {column_clause(Text(fs[i][1]), fs[i][2]) : i \in DOMAIN fs}

AppEventsColumns ==
    {[name |-> "\"ID\"", type |-> "number"],
     [name |-> "\"PAYLOAD__X\"", type |-> "text"]}

\* C14 as stated: with max_level 1 the app-events schema gives the columns
\* ID (number) and PAYLOAD__X (text), and flatten_record maps the record
\* {id: 7, payload: {x: a}} to a mapping with exactly the keys ID and
\* PAYLOAD__X and the values 7 and a.
C14_AppEventsUpperCaseKeys ==
    AppEventsCall =>
        /\ pure_result.error = None
        /\ ColumnClauses(pure_result.flatten_schema) = AppEventsColumns
        /\ {<<Text(it[1]), it[2]>> : it \in {pure_result.value[i] :
                                              i \in DOMAIN pure_result.value}}
              = {<<"ID", [t |-> "int", v |-> 7]>>,
                 <<"PAYLOAD__X", [t |-> "str", v |-> "a"]>>}

\* C14 amended: the columns are ID (number) and PAYLOAD__X (text); the keys
\* of the flattened schema and of the flattened record are the lower-case
\* names id and payload__x, with the values 7 and a.
C14_AppEventsLowerCaseKeys ==
    AppEventsCall =>
        /\ pure_result.error = None
        /\ ColumnClauses(pure_result.flatten_schema) = AppEventsColumns
        /\ {Text(k) : k \in KeySet(pure_result.flatten_schema)} = {"id", "payload__x"}
        /\ {<<Text(it[1]), it[2]>> : it \in {pure_result.value[i] :
                                              i \in DOMAIN pure_result.value}}
              = {<<"id", [t |-> "int", v |-> 7]>>,
                 <<"payload__x", [t |-> "str", v |-> "a"]>>}

C14_Witness == AppEventsCall /\ Len(pure_result.value) = 2

----------------------------------------------------------------------------
(* stream_name_to_dict and the type mapper under call *)

\* longest stream name that is enumerated
MaxNameLen == 4

k_sales_orders == <<"s", "a", "l", "e", "s", "-", "o", "r", "d", "e", "r", "s">>

\* stream names and separators handed to stream_name_to_dict
StreamNames == SeqsOver({"a", "b", "-", "."}, MaxNameLen) \cup {k_sales_orders}
Separators == {"-", "."}

StreamNameCalls ==
    {[fn |-> "stream_name_to_dict", stream_name |-> n, separator |-> sep] :
        n \in StreamNames, sep \in Separators}

\* properties handed to column_type and column_trans
TypeNames == {"object", "array", "number", "integer", "string", "boolean"}
Formats == {"date-time", "time", "binary", "date"}
SchemaProperties ==
    {[type |-> t] : t \in SUBSET TypeNames}
    \cup {[type |-> t, format |-> f] : t \in SUBSET TypeNames, f \in Formats}

\* properties mapped before or after the property of pure_call
OtherProperties ==
    {[type |-> {"string"}], [type |-> {"integer"}], [type |-> {"object"}],
     [type |-> {"number"}], [type |-> {"string"}, format |-> "date-time"],
     [type |-> {"boolean"}, format |-> "binary"]}

ColumnTypeCalls ==
    {[fn |-> "column_type", schema_property |-> p] : p \in SchemaProperties}

\* stream_name_to_dict(stream_name, separator)
StreamNameToDict ==
    /\ pure_call.fn = "stream_name_to_dict"
    /\ ~pure_result.done
    /\ pure_result' = [done |-> TRUE, error |-> None,
                       value |-> stream_name_to_dict(pure_call.stream_name,
                                                     pure_call.separator)]
    /\ UNCHANGED <<connection_config, key_properties, pipe_vars, load_vars,
                   sync_vars, pure_call, dbsync, conn_vars>>

\* column_type(p) and column_trans(p), for the property of pure_call or
\* another one, any number of times: the last call is kept, and so is every
\* result that was returned for the property of pure_call, with whether
\* another property was mapped before it
ColumnType ==
    /\ pure_call.fn = "column_type"
    /\ \E p \in {pure_call.schema_property} \cup OtherProperties :
        LET returned == [schema_property |-> p,
                         column_type |-> column_type(p),
                         column_trans |-> column_trans(p)]
            seen == IF pure_result.done THEN pure_result.seen ELSE {}
            other_before == pure_result.done /\ pure_result.last.schema_property # p
        IN  pure_result' =
                [done |-> TRUE, error |-> None, last |-> returned,
                 seen |-> IF p = pure_call.schema_property
                          THEN seen \cup {[column_type |-> returned.column_type,
                                           column_trans |-> returned.column_trans,
                                           other_before |-> other_before]}
                          ELSE seen]
    /\ UNCHANGED <<connection_config, key_properties, pipe_vars, load_vars,
                   sync_vars, pure_call, dbsync, conn_vars>>

InitNaming ==
    /\ ObjectIdle
    /\ InitIdle
    /\ ConnIdle
    /\ pure_call \in StreamNameCalls \cup ColumnTypeCalls
    /\ pure_result = [done |-> FALSE]

NextNaming == StreamNameToDict \/ ColumnType

SpecNaming == InitNaming /\ [][NextNaming]_vars

----------------------------------------------------------------------------
(* Properties of stream_name_to_dict and the type mapper *)

\* the number of separators in a name
SeparatorCount(name, sep) == Cardinality({i \in DOMAIN name : name[i] = sep})

Holds(name, c) == \E i \in DOMAIN name : name[i] = c

\* C15: stream_name_to_dict splits the stream name on the separator: one
\* segment gives the table name and no schema; two segments give schema and
\* table; more than two give catalog, schema and the rest joined by
\* underscore; "sales-orders" split on - gives schema sales, table orders.
C15_SplitsStreamName ==
    Returned("stream_name_to_dict") =>
        LET name == pure_call.stream_name
            sep == pure_call.separator
            r == pure_result.value
            n == SeparatorCount(name, sep)
        IN  /\ n = 0 => r = [catalog_name |-> NoneStr, schema_name |-> NoneStr,
                             table_name |-> name]
            /\ n = 1 => /\ r.catalog_name = NoneStr
                        /\ ~Holds(r.schema_name, sep)
                        /\ name = r.schema_name \o <<sep>> \o r.table_name
            /\ n > 1 => /\ ~Holds(r.catalog_name, sep)
                        /\ ~Holds(r.schema_name, sep)
                        /\ LET skip == Len(r.catalog_name) + Len(r.schema_name) + 2
                               rest == SubSeq(name, skip + 1, Len(name))
                           IN  /\ name = r.catalog_name \o <<sep>> \o r.schema_name
                                           \o <<sep>> \o rest
                               /\ r.table_name = Replace(rest, sep, "_")
            /\ (name = k_sales_orders /\ sep = "-") =>
                  /\ Text(r.schema_name) = "sales"
                  /\ Text(r.table_name) = "orders"

\* a name of more than three segments was split
C15_Witness ==
    /\ Returned("stream_name_to_dict")
    /\ SeparatorCount(pure_call.stream_name, pure_call.separator) > 2
    /\ Holds(pure_result.value.table_name, "_")

\* C16: column_type follows the decision table, the first matching rule
\* winning: object or array -> variant; format date-time -> timestamp_ntz;
\* format time -> time; format binary -> binary; number -> float; integer
\* and string -> text; integer -> number; boolean -> boolean; otherwise
\* text.  A property gets the same column type and transform at every call,
\* whatever was mapped before.
C16_DecisionTable ==
    Returned("column_type") =>
        LET p == pure_result.last.schema_property
            result == pure_result.last.column_type
            has(t) == t \in p.type
            format == IF "format" \in DOMAIN p THEN p.format ELSE None
            structured == has("object") \/ has("array")
            formatted == format \in {"date-time", "time", "binary"}
            plain == ~structured /\ ~formatted
        IN  /\ structured <=> result = "variant"
            /\ ~structured /\ format = "date-time" => result = "timestamp_ntz"
            /\ ~structured /\ format = "time" => result = "time"
            /\ ~structured /\ format = "binary" => result = "binary"
            /\ plain /\ has("number") => result = "float"
            /\ plain /\ ~has("number") /\ has("integer") /\ has("string")
                  => result = "text"
            /\ plain /\ ~has("number") /\ has("integer") /\ ~has("string")
                  => result = "number"
            /\ plain /\ ~has("number") /\ ~has("integer") /\ has("boolean")
                  => result = "boolean"
            /\ plain /\ ~has("number") /\ ~has("integer") /\ ~has("boolean")
                  => result = "text"
            /\ \A a \in pure_result.seen, b \in pure_result.seen :
                  /\ a.column_type = b.column_type
                  /\ a.column_trans = b.column_trans

\* an integer-or-string property was mapped to text, first of all calls and
\* again after another property
C16_Witness ==
    /\ Returned("column_type")
    /\ pure_call.schema_property = [type |-> {"integer", "string"}]
    /\ pure_result.last.schema_property = pure_call.schema_property
    /\ pure_result.last.column_type = "text"
    /\ \E a \in pure_result.seen, b \in pure_result.seen :
          a.other_before /\ ~b.other_before

----------------------------------------------------------------------------
(* validate_config and DbSync.__init__ *)

(* connection_config is a dict of the keys that are present.  The values    *)
(* of 'stage' and 'default_target_schema' are character sequences, the      *)
(* value of 'schema_mapping' is a dict from names to entries, every other   *)
(* value is a text.                                                         *)

\* truthiness of config.get(k, None)
ConfigTruthy(config, k) ==
    /\ k \in DOMAIN config
    /\ IF k \in {"stage", "default_target_schema", "schema_mapping"}
       THEN config[k] # <<>>
       ELSE config[k] # ""

s3_required_config_keys ==
    <<"account", "dbname", "user", "password", "warehouse", "s3_bucket",
      "stage", "file_format">>

snowflake_required_config_keys ==
    <<"account", "dbname", "user", "password", "warehouse", "file_format">>

validate_config_TableStageByDefault(config) ==
    LET required_config_keys ==
            IF ConfigTruthy(config, "s3_bucket") /\ ConfigTruthy(config, "stage")
            THEN s3_required_config_keys
            ELSE snowflake_required_config_keys
    IN  SelectSeq(required_config_keys, LAMBDA k : ~ConfigTruthy(config, k))
        \o (IF /\ ~ConfigTruthy(config, "default_target_schema")
               /\ ~ConfigTruthy(config, "schema_mapping")
            THEN <<"target schema">> ELSE <<>>)

\* validate_config(config): the errors, each named by the key or the rule
validate_config(config) ==
    LET both == ConfigTruthy(config, "s3_bucket") /\ ConfigTruthy(config, "stage")
        none == ~ConfigTruthy(config, "s3_bucket") /\ ~ConfigTruthy(config, "stage")
        required_config_keys ==
            IF both THEN s3_required_config_keys
            ELSE IF none THEN snowflake_required_config_keys
            ELSE <<>>
    IN  (IF ~both /\ ~none THEN <<"only one of s3_bucket and stage">> ELSE <<>>)
        \o SelectSeq(required_config_keys, LAMBDA k : ~ConfigTruthy(config, k))
        \o (IF /\ ~ConfigTruthy(config, "default_target_schema")
               /\ ~ConfigTruthy(config, "schema_mapping")
            THEN <<"target schema">> ELSE <<>>)

\* str.strip()
Strip(cs) ==
    LET inked == {i \in DOMAIN cs : cs[i] # " "}
    IN  IF inked = {} THEN <<>>
        ELSE SubSeq(cs, CHOOSE i \in inked : \A j \in inked : i <= j,
                        CHOOSE i \in inked : \A j \in inked : i >= j)

\* `not x` for a string or None
Falsy(cs) == cs = NoneStr \/ cs = <<>>

\* __init__ is about to validate the configuration
Constructing(message) ==
    [pc |-> "validate", stream_schema_message |-> message, outcome |-> "running",
     exit_status |-> <<>>, logged |-> {}, schema_name |-> NoneStr,
     grantees |-> None, flatten_schema |-> <<>>, uploadClient |-> None]

\* lines 292-298: validate the configuration and exit if it has errors
InitValidate ==
    /\ dbsync.pc = "validate"
    /\ LET config_errors == validate_config(connection_config)
       IN  dbsync' =
              IF Len(config_errors) > 0
              THEN [dbsync EXCEPT !.pc = "end", !.outcome = "SystemExit",
                                  !.exit_status = <<1>>,
                                  !.logged = @ \cup {"Invalid configuration"}]
              ELSE [dbsync EXCEPT !.pc = "stage"]
    /\ UNCHANGED <<connection_config, key_properties, pipe_vars, load_vars,
                   sync_vars, pure_vars, conn_vars>>

\* lines 300-305: a named stage has to be <schema>.<stage_name>
InitStage ==
    /\ dbsync.pc = "stage"
    /\ LET stage == stream_name_to_dict(DictGet(connection_config, "stage", <<>>), ".")
       IN  dbsync' =
              IF ConfigTruthy(connection_config, "stage") /\ Falsy(stage.schema_name)
              THEN [dbsync EXCEPT !.pc = "end", !.outcome = "SystemExit",
                                  !.exit_status = <<1>>,
                                  !.logged = @ \cup {"stage format"}]
              ELSE [dbsync EXCEPT !.pc = "schema"]
    /\ UNCHANGED <<connection_config, key_properties, pipe_vars, load_vars,
                   sync_vars, pure_vars, conn_vars>>

\* the key under which __init__ looks the stream up in schema_mapping
stream_schema_name(message) ==
    stream_name_to_dict(message.stream, DefaultSeparator).schema_name

target_schema_DefaultFirst(config, message) ==
    LET config_default_target_schema ==
            Strip(DictGet(config, "default_target_schema", <<>>))
        config_schema_mapping == DictGet(config, "schema_mapping", <<>>)
    IN  IF config_default_target_schema # <<>> THEN config_default_target_schema
        ELSE IF /\ config_schema_mapping # <<>>
                /\ HasKey(config_schema_mapping, stream_schema_name(message))
        THEN DictGet(Lookup(config_schema_mapping, stream_schema_name(message)),
                     "target_schema", NoneStr)
        ELSE NoneStr

\* lines 327-335: self.schema_name
target_schema(config, message) ==
    LET config_default_target_schema ==
            Strip(DictGet(config, "default_target_schema", <<>>))
        config_schema_mapping == DictGet(config, "schema_mapping", <<>>)
    IN  IF /\ config_schema_mapping # <<>>
           /\ HasKey(config_schema_mapping, stream_schema_name(message))
        THEN DictGet(Lookup(config_schema_mapping, stream_schema_name(message)),
                     "target_schema", NoneStr)
        ELSE IF config_default_target_schema # <<>> THEN config_default_target_schema
        ELSE NoneStr

\* lines 359-362: self.grantees
select_permissions(config, message) ==
    LET config_schema_mapping == DictGet(config, "schema_mapping", <<>>)
        default == DictGet(config, "default_target_schema_select_permissions", None)
    IN  IF /\ config_schema_mapping # <<>>
           /\ HasKey(config_schema_mapping, stream_schema_name(message))
        THEN DictGet(Lookup(config_schema_mapping, stream_schema_name(message)),
                     "target_schema_select_permissions", default)
        ELSE default

\* lines 311-366: with a stream, the target schema (an Exception if there is
\* none), the grantees and the flattened schema of the stream's schema (the
\* app-events schema here, data_flattening_max_level not configured)
InitStream ==
    /\ dbsync.pc = "schema"
    /\ IF dbsync.stream_schema_message = [stream |-> NoneStr]
       THEN dbsync' = [dbsync EXCEPT !.pc = "upload_client"]
       ELSE LET message == dbsync.stream_schema_message
                name == target_schema(connection_config, message)
                flat == flatten_schema_of(AppEvents, <<>>, DefaultSep, 0,
                           DictGet(connection_config, "data_flattening_max_level", 0))
            IN  dbsync' =
                   IF Falsy(name)
                   THEN [dbsync EXCEPT !.pc = "end", !.outcome = "Exception",
                                       !.schema_name = name]
                   ELSE IF flat.error # None
                   THEN [dbsync EXCEPT !.pc = "end", !.outcome = flat.error,
                                       !.schema_name = name,
                                       !.grantees = select_permissions(connection_config, message)]
                   ELSE [dbsync EXCEPT !.pc = "upload_client", !.schema_name = name,
                                       !.grantees = select_permissions(connection_config, message),
                                       !.flatten_schema = flat.items]
    /\ UNCHANGED <<connection_config, key_properties, pipe_vars, load_vars,
                   sync_vars, pure_vars, conn_vars>>

\* lines 368-372: the upload client
InitUploadClient ==
    /\ dbsync.pc = "upload_client"
    /\ dbsync' = [dbsync EXCEPT
                     !.pc = "constructed", !.outcome = "returned",
                     !.uploadClient = IF ConfigTruthy(connection_config, "s3_bucket")
                                      THEN "S3UploadClient"
                                      ELSE "SnowflakeUploadClient"]
    /\ UNCHANGED <<connection_config, key_properties, pipe_vars, load_vars,
                   sync_vars, pure_vars, conn_vars>>

\* connections one behaviour opens on the constructed object
MaxConnects == 1

\* open_connection on the constructed object (through any method)
Connect ==
    /\ dbsync.pc = "constructed"
    /\ connects < MaxConnects
    /\ connects' = connects + 1
    /\ UNCHANGED <<connection_config, key_properties, pipe_vars, load_vars,
                   sync_vars, pure_vars, dbsync, connections, operation,
                   executed, op_log>>

\* the configurations handed to DbSync
CommonKeys == {"account", "dbname", "user", "password", "warehouse", "file_format"}
k_analytics == <<"a", "n", "a", "l", "y", "t", "i", "c", "s">>
k_dw == <<"d", "w">>
k_sales == <<"s", "a", "l", "e", "s">>
k_orders == <<"o", "r", "d", "e", "r", "s">>

CommonConfigs ==
    {[k \in CommonKeys |-> "set"], [k \in {} |-> "set"]}
    \cup {[k \in CommonKeys \ {gone} |-> "set"] : gone \in CommonKeys}
    \cup {[k \in CommonKeys |-> IF k = empty THEN "" ELSE "set"] : empty \in CommonKeys}

Buckets == {<<>>, <<"s3_bucket", "">>, <<"s3_bucket", "bucket">>}
Stages ==
    {<<>>, <<"stage", <<>> >>, <<"stage", k_dw \o <<".">> \o k_sales>>,
     <<"stage", k_sales>>}
DefaultSchemas ==
    {<<>>, <<"default_target_schema", <<>> >>, <<"default_target_schema", <<" ">> >>,
     <<"default_target_schema", k_analytics>>}
SchemaMappings ==
    {<<>>, <<"schema_mapping", <<>> >>,
     <<"schema_mapping", << <<k_sales, [target_schema |-> k_dw]>> >> >>,
     <<"schema_mapping", << <<k_sales, [target_schema_select_permissions |-> "reader"]>> >> >>,
     <<"schema_mapping", << <<k_sales_orders, [target_schema |-> k_dw]>> >> >>,
     <<"schema_mapping", << <<k_orders, [target_schema |-> k_dw]>> >> >>}

\* a dict of the common keys and of the optional keys that are given
WithOptional(common, optional) ==
    LET given == {o \in optional : o # <<>>}
        keys == {o[1] : o \in given}
    IN  [k \in DOMAIN common \cup keys |->
            IF k \in keys THEN (CHOOSE o \in given : o[1] = k)[2] ELSE common[k]]

InitConfigs ==
    {WithOptional(c, {b, s, d, m}) :
        c \in CommonConfigs, b \in Buckets, s \in Stages, d \in DefaultSchemas,
        m \in SchemaMappings}

StreamSchemaMessages ==
    {[stream |-> NoneStr], [stream |-> k_orders], [stream |-> k_sales_orders]}

InitConstruct ==
    /\ connection_config \in InitConfigs
    /\ key_properties = <<>>
    /\ PipeIdle
    /\ LoadIdle
    /\ SyncIdle
    /\ PureIdle
    /\ ConnIdle
    /\ dbsync \in {Constructing(m) : m \in StreamSchemaMessages}

NextConstruct ==
    InitValidate \/ InitStage \/ InitStream \/ InitUploadClient \/ Connect

SpecConstruct == InitConstruct /\ [][NextConstruct]_vars

----------------------------------------------------------------------------
(* Properties of DbSync.__init__ *)

\* exactly one of s3_bucket and stage is set, or a key that the staging mode
\* requires is missing
Rejected(config) ==
    LET bucket == ConfigTruthy(config, "s3_bucket")
        stage == ConfigTruthy(config, "stage")
    IN  \/ bucket # stage
        \/ \E k \in CommonKeys : ~ConfigTruthy(config, k)

\* __init__ raised or exited
ConstructionFailed == dbsync.pc = "end"

\* C17: a configuration with exactly one of s3_bucket and stage set, or
\* with a required key of its staging mode missing, is rejected:
\* constructing DbSync with it ends in sys.exit(1) and no warehouse
\* connection is opened before.
C17_RejectedConfigExits ==
    Rejected(connection_config) =>
        /\ connects = 0
        /\ dbsync.pc \in {"validate", "end"}
        /\ ConstructionFailed =>
              /\ dbsync.outcome = "SystemExit"
              /\ dbsync.exit_status = <<1>>

\* construction ended on a configuration that sets the bucket and no stage
C17_Witness ==
    /\ ConstructionFailed
    /\ dbsync.outcome = "SystemExit"
    /\ ConfigTruthy(connection_config, "s3_bucket")
    /\ ~ConfigTruthy(connection_config, "stage")
    /\ \A k \in CommonKeys : ConfigTruthy(connection_config, k)

\* the schema_mapping entry of the stream under construction: the entry
\* under the schema part of the stream name
HasOverride ==
    /\ "schema_mapping" \in DOMAIN connection_config
    /\ HasKey(connection_config.schema_mapping,
              stream_schema_name(dbsync.stream_schema_message))

Override ==
    Lookup(connection_config.schema_mapping,
           stream_schema_name(dbsync.stream_schema_message))

ConfiguredDefault ==
    IF "default_target_schema" \in DOMAIN connection_config
    THEN Strip(connection_config.default_target_schema)
    ELSE <<>>

\* __init__ of a stream got past the target schema
SchemaResolved ==
    /\ dbsync.stream_schema_message # [stream |-> NoneStr]
    /\ dbsync.pc \in {"upload_client", "constructed"}

----------------------------------------------------------------------------
(* open_connection, query and the connection of load_csv *)

\* warehouse operations in one behaviour
MaxOps == 2
\* longest statement list handed to query
MaxList == 2
\* largest cur.rowcount the warehouse reports
MaxRows == 2

\* the statements of the model, and the lists of them handed to query
StatementPool == <<"show", "alter", "select", "grant">>
StatementLists == {SubSeq(StatementPool, 1, n) : n \in 0 .. Min(MaxList, Len(StatementPool))}

\* the arguments of query: a list of statements or one statement, max_records
QueryArguments ==
    {[is_list |-> TRUE, statements |-> l, max_records |-> m] :
        l \in StatementLists, m \in 0 .. 1}
    \cup {[is_list |-> FALSE, statements |-> <<"select">>, max_records |-> m] :
            m \in 0 .. 1}

\* lines 400-407: the statements query runs
queries_of(query) ==
    IF query.is_list THEN <<"START TRANSACTION">> \o query.statements
    ELSE query.statements

exceeds_OrEqual(max_records, rowcount) == 0 < max_records /\ max_records <= rowcount

\* `0 < max_records < cur.rowcount`
exceeds(max_records, rowcount) == 0 < max_records /\ max_records < rowcount

with_exit_OnSuccess(open, connection, raised) ==
    IF raised = None THEN open \ {connection} ELSE open

\* leaving `with self.open_connection() as connection`: the connection is
\* closed, whether the block returned or raised
with_exit(open, connection, raised) == open \ {connection}

\* no warehouse operation is running
BetweenOperations ==
    IF operation.kind = "idle" THEN TRUE ELSE operation.pc = "done"

\* the operation that is starting, before open_connection
Starting(kind, query) ==
    [kind |-> kind, pc |-> "run", query |-> query, queries |-> queries_of(query),
     next |-> 1, connection |-> connects + 1, raised |-> None,
     result |-> [of |-> 0, rows |-> 0]]

\* an operation starts: self.open_connection() returns a new connection or
\* raises
Open(kind, query) ==
    /\ BetweenOperations
    /\ Len(op_log) < MaxOps
    /\ executed' = <<>>
    /\ \E connected \in BOOLEAN :
        IF connected
        THEN /\ connects' = connects + 1
             /\ connections' = connections \cup {connects + 1}
             /\ operation' = Starting(kind, query)
             /\ op_log' = op_log
        ELSE /\ operation' = [Starting(kind, query) EXCEPT
                                 !.pc = "done", !.connection = 0,
                                 !.raised = "DatabaseError"]
             /\ op_log' = Append(op_log, [kind |-> kind, connection |-> 0, used |-> {}])
             /\ UNCHANGED <<connects, connections>>
    /\ UNCHANGED <<connection_config, key_properties, pipe_vars, load_vars,
                   sync_vars, pure_vars, dbsync>>

\* query(query, max_records=...)
Query == \E query \in QueryArguments : Open("query", query)

\* load_csv: its one MERGE or COPY statement, no row guard
LoadCsvOpen ==
    \E stmt \in {"merge", "copy"} :
        Open("load_csv", [is_list |-> FALSE, statements |-> <<stmt>>, max_records |-> 0])

\* cur.execute(q): the statement fails, or gives its rows; query raises
\* TooManyRecordsException when they are more than max_records
Execute ==
    /\ operation.kind # "idle"
    /\ operation.pc = "run"
    /\ operation.next <= Len(operation.queries)
    /\ \E failed \in BOOLEAN, rowcount \in 0 .. MaxRows :
        /\ failed => rowcount = 0
        /\ executed' = Append(executed,
              [stmt |-> operation.queries[operation.next],
               connection |-> operation.connection,
               rowcount |-> rowcount, failed |-> failed])
        /\ operation' =
              IF failed
              THEN [operation EXCEPT !.pc = "unwind", !.raised = "ProgrammingError"]
              ELSE IF operation.kind = "query"
                      /\ exceeds(operation.query.max_records, rowcount)
              THEN [operation EXCEPT !.pc = "unwind",
                                     !.raised = "TooManyRecordsException"]
              ELSE [operation EXCEPT
                       !.next = @ + 1,
                       !.result = [of |-> operation.next, rows |-> rowcount]]
    /\ UNCHANGED <<connection_config, key_properties, pipe_vars, load_vars,
                   sync_vars, pure_vars, dbsync, connects, connections, op_log>>

\* the with block is left, by the return after the last statement or by the
\* exception
Close ==
    /\ operation.kind # "idle"
    /\ \/ operation.pc = "unwind"
       \/ operation.pc = "run" /\ operation.next > Len(operation.queries)
    /\ connections' = with_exit(connections, operation.connection, operation.raised)
    /\ operation' = [operation EXCEPT !.pc = "done"]
    /\ op_log' = Append(op_log,
          [kind |-> operation.kind, connection |-> operation.connection,
           used |-> {executed[i].connection : i \in DOMAIN executed}])
    /\ UNCHANGED <<connection_config, key_properties, pipe_vars, load_vars,
                   sync_vars, pure_vars, dbsync, connects, executed>>

InitQuery ==
    /\ connection_config = [file_format |-> "csv"]
    /\ key_properties = <<>>
    /\ PipeIdle
    /\ LoadIdle
    /\ SyncIdle
    /\ PureIdle
    /\ InitIdle
    /\ ConnIdle

NextQuery == Query \/ LoadCsvOpen \/ Execute \/ Close

SpecQuery == InitQuery /\ [][NextQuery]_vars

----------------------------------------------------------------------------
(* Properties of query and of the connections *)

\* C19: every warehouse operation (query, load_csv) opens its own new
\* connection and that connection is closed when the operation ends, on
\* success and on error: between two operations no connection is open, and
\* no connection is used by two operations.
C19_ConnectionPerOperation ==
    /\ BetweenOperations => connections = {}
    /\ ~BetweenOperations => connections = {operation.connection}
    /\ \A i \in DOMAIN executed : executed[i].connection = operation.connection
    /\ \A i \in DOMAIN op_log :
          /\ op_log[i].used \subseteq {op_log[i].connection}
          /\ \A j \in DOMAIN op_log :
                (i # j /\ op_log[i].connection # 0)
                    => op_log[i].connection # op_log[j].connection
          /\ ~BetweenOperations => op_log[i].connection # operation.connection

\* a second operation has ended by an exception, after a first that used
\* its own connection
C19_Witness ==
    /\ Len(op_log) = 2
    /\ operation.kind # "idle"
    /\ operation.pc = "done"
    /\ operation.raised = "ProgrammingError"
    /\ op_log[1].used # {}
    /\ op_log[2].used # {}
    /\ connections = {}

\* the statements the operation has executed
Ran == [i \in DOMAIN executed |-> executed[i].stmt]

\* C20: query() given a list runs the statements in list order inside one
\* transaction started before the first statement and returns the rows of
\* the last statement; with max_records > 0 it raises
\* TooManyRecordsException as soon as a statement's row count exceeds
\* max_records and executes no later statement; with max_records = 0 the
\* guard never fires.
C20_ListInOneTransaction ==
    (operation.kind = "query" /\ operation.query.is_list) =>
        LET given == operation.query.statements
            max_records == operation.query.max_records
            over(i) == ~executed[i].failed /\ executed[i].rowcount > max_records
        IN  /\ Ran = SubSeq(<<"START TRANSACTION">> \o given, 1, Len(Ran))
            /\ \A i \in DOMAIN executed :
                  (max_records > 0 /\ over(i)) =>
                      /\ i = Len(executed)
                      /\ operation.raised = "TooManyRecordsException"
            /\ operation.raised = "TooManyRecordsException" =>
                  /\ max_records > 0
                  /\ Len(executed) > 0 /\ over(Len(executed))
            /\ (operation.pc = "done" /\ operation.raised = None) =>
                  /\ Len(Ran) = Len(given) + 1
                  /\ operation.result = [of |-> Len(Ran),
                                         rows |-> executed[Len(Ran)].rowcount]

\* a list was cut short by the guard at its second statement
C20_Witness ==
    /\ operation.kind = "query"
    /\ operation.query.is_list
    /\ operation.pc = "done"
    /\ operation.raised = "TooManyRecordsException"
    /\ Len(executed) = 2
    /\ Len(operation.query.statements) > 1

----------------------------------------------------------------------------
(* Order of the events of load_via_snowpipe *)

\* the statements handed to self.query so far are the given ones, in order
Issued(statements) == sql_log = statements

\* C21: the events of load_via_snowpipe occur in the order create-pipe
\* attempt, submit attempts, history polls, one drop-pipe: nothing is
\* submitted before the create-pipe attempt, no history is polled before a
\* submit has succeeded, no submit follows a poll, and the drop-pipe is
\* issued once, last, after a history response with an entry.
C21_EventOrder ==
    /\ pc = "create_pipe" => Issued(<<>>) /\ attempts = 0 /\ polls = 0
    /\ pc \in {"load_key", "submit", "backoff", "fatal"} =>
          Issued(<<"create pipe">>) /\ polls = 0
    /\ pc = "load_key" => attempts = 0
    /\ pc \in {"poll", "poll_wait"} =>
          /\ Issued(<<"create pipe">>)
          /\ attempts >= 1
          /\ "files received" \in logged
    /\ polls > 0 => attempts >= 1 /\ "files received" \in logged
    /\ sql_log \in {<<>>, <<"create pipe">>, <<"create pipe", "drop pipe">>}
    /\ DropIssued =>
          /\ pc = "end"
          /\ polls >= 1
          /\ Len(history_resp) > 0

\* a load that submitted twice and polled twice before it dropped the pipe
C21_Witness ==
    /\ pc = "end"
    /\ outcome = "returned"
    /\ attempts >= 2
    /\ polls >= 2
    /\ Issued(<<"create pipe", "drop pipe">>)

\* C22: a create-pipe statement that fails with a ProgrammingError is
\* logged and the call goes on to the submit step; with key properties the
\* warning is logged and the step is otherwise the one of a stream without
\* keys: the same statement, the same continuation, and no statement other
\* than create pipe and drop pipe is ever issued.
C22_CreatePipeTolerant ==
    [][pc = "create_pipe" =>
          /\ sql_log' = <<"create pipe">>
          /\ pc' \in {"load_key", "end"}
          /\ pc' = "end" => outcome' = "DatabaseError"
          /\ pc' = "load_key" => outcome' = "running"
          /\ "create pipe error" \in logged' => pc' = "load_key"
          /\ pipe_exists => "create pipe error" \in logged' \/ pc' = "end"
          /\ "primary key warning" \in logged' <=> Len(key_properties) > 0
          /\ logged' \subseteq {"primary key warning", "create pipe error"}
          /\ UNCHANGED <<key_properties, attempts, polls, pipe_files>>]_vars

\* a load of a stream with keys whose create-pipe failed has polled
C22_Witness ==
    /\ Len(key_properties) > 0
    /\ {"create pipe error", "primary key warning", "files received"} \subseteq logged
    /\ polls > 0

\* C23: the waits between consecutive history polls grow by one fixed
\* increment: every two consecutive differences of the waits are equal.
C23_LinearPollWaits ==
    polls > 0 =>
        \A i \in 2 .. Len(slept) - 1 :
            slept[i + 1] - slept[i] = slept[i] - slept[i - 1]

----------------------------------------------------------------------------
(* Further properties of sync_table and update_columns *)

\* the column rows a call diffed: the cache when one is in use, a live
\* introspection otherwise
ViewOf(call) ==
    IF call.used_cache THEN call.cache_before.rows
    ELSE get_table_columns(Visible(call.live_before, call.response), <<schema_name>>)

\* the columns of the stream's table as the call saw them, by upper-case name
SeenColumns(call) == columns_dict(TableColumns(ViewOf(call)))

\* the call issued a rename, or an add, of the column of a schema name
Renames(call, name) ==
    \E i \in DOMAIN call.statements :
        /\ call.statements[i].op = "rename column"
        /\ call.statements[i].from = safe_column_name(name)

Adds(call, name) ==
    \E i \in DOMAIN call.statements :
        /\ call.statements[i].op = "add column"
        /\ call.statements[i].columns[1].name = safe_column_name(name)

\* the schema maps the name to the date-time column type
IsDateTime(name) == column_type(flatten_schema[name]) = "timestamp_ntz"

\* C24: update_columns never renames a column whose newly inferred type is
\* timestamp_ntz, and never adds it again when the column exists, whatever
\* the declared type of the existing column is.
C24_DateTimeNeverAltered ==
    \A n \in DOMAIN calls :
        \A name \in DOMAIN flatten_schema :
            (calls[n].branch = "update" /\ IsDateTime(name)) =>
                /\ ~Renames(calls[n], name)
                /\ upper(name) \in DOMAIN SeenColumns(calls[n])
                      => ~Adds(calls[n], name)

\* a pass over a table whose TS column is declared TEXT while the schema
\* says date-time, and whose ID column was versioned
C24_Witness ==
    /\ Len(calls) > 0
    /\ calls[1].branch = "update"
    /\ calls[1].error = None
    /\ "ts" \in DOMAIN flatten_schema
    /\ IsDateTime("ts")
    /\ "TS" \in DOMAIN SeenColumns(calls[1])
    /\ SeenColumns(calls[1])["TS"].DATA_TYPE = "TEXT"
    /\ "id" \in DOMAIN flatten_schema
    /\ Renames(calls[1], "id")

\* the operations of the statements of a call, in order
Shape(call) == [i \in DOMAIN call.statements |-> call.statements[i].op]

\* the configured grantees, one entry per role
ConfiguredRoles ==
    CASE grantees.kind = "list" -> grantees.value
      [] grantees.kind = "str" -> <<grantees.value>>
      [] OTHER -> <<>>

\* the operations of a call that finds the table absent and runs to its end
CreateShape(call) ==
    (IF call.used_cache THEN <<>> ELSE <<"show tables">>)
        \o <<"create table">>
        \o [j \in DOMAIN ConfiguredRoles |-> "grant select"]
        \o (IF call.used_cache THEN <<"show columns">> ELSE <<>>)

\* where the create-table statement stands in such a call
CreateAt(call) == IF call.used_cache THEN 1 ELSE 2

\* C25: a sync_table call that finds the table absent issues one
\* create-table statement with all flattened columns, with a primary key if
\* and only if the stream has key properties, then one select grant per
\* configured role in order, then the cache refresh if a cache is in use
\* (a non-empty cache), which stores the rows the introspection gives
\* back; it issues no add-column and no rename statement.
C25_CreateBranchStatements ==
    \A n \in DOMAIN calls :
        calls[n].branch = "create" =>
            LET call == calls[n]
                k == CreateAt(call)
            IN  /\ Shape(call) = SubSeq(CreateShape(call), 1, Len(Shape(call)))
                /\ call.error = None => Len(Shape(call)) = Len(CreateShape(call))
                /\ DDL(call) = <<>>
                /\ Len(call.statements) >= k =>
                      /\ call.statements[k].columns =
                            [i \in DOMAIN Keys(flatten_schema) |->
                                column_clause(Keys(flatten_schema)[i],
                                              flatten_schema[Keys(flatten_schema)[i]])]
                      /\ Len(call.statements[k].columns)
                            = Cardinality(DOMAIN flatten_schema)
                      /\ call.statements[k].primary_key # <<>>
                            <=> Len(key_properties) > 0
                /\ \A j \in DOMAIN ConfiguredRoles :
                      Len(call.statements) >= k + j =>
                          call.statements[k + j].grantee = ConfiguredRoles[j]
                /\ (n = Len(calls) /\ call.error = None /\ call.used_cache) =>
                      table_cache = CacheOf(get_table_columns(
                                        Visible(live, call.response), <<schema_name>>))

\* a table created from a cache in use, for a keyed stream and two roles
C25_Witness ==
    /\ Len(calls) = 1
    /\ calls[1].branch = "create"
    /\ calls[1].error = None
    /\ calls[1].used_cache
    /\ grantees.kind = "list"
    /\ Len(key_properties) > 0
    /\ Shape(calls[1]) = <<"create table", "grant select", "grant select",
                           "show columns">>

\* self.table_cache as call n left it
CacheAfter(n) == IF n = Len(calls) THEN table_cache ELSE calls[n + 1].cache_before

\* the warehouse catalog as call n left it
LiveAfter(n) == IF n = Len(calls) THEN live ELSE calls[n + 1].live_before

\* every schema column is among the columns the call saw, with the type the
\* schema maps to
AllColumnsMatch(call) ==
    \A name \in DOMAIN flatten_schema :
        /\ upper(name) \in DOMAIN SeenColumns(call)
        /\ upper(SeenColumns(call)[upper(name)].DATA_TYPE)
              = upper(column_type(flatten_schema[name]))

\* C26: an update_columns pass that runs to its end with a cache in use
\* replaces the cache by the rows of a live introspection if and only if
\* it added or versioned a column; when every schema column exists with a matching type
\* it issues no statement at all and leaves the cache as it was.
C26_RefreshOnlyAfterChange ==
    \A n \in DOMAIN calls :
        (calls[n].branch = "update" /\ calls[n].used_cache /\ calls[n].error = None)
        => /\ DDL(calls[n]) # <<>> =>
                /\ calls[n].statements = DDL(calls[n]) \o <<show_columns>>
                /\ CacheAfter(n)
                      = CacheOf(get_table_columns(
                            Visible(LiveAfter(n), calls[n].response), <<schema_name>>))
           /\ DDL(calls[n]) = <<>> =>
                /\ calls[n].statements = <<>>
                /\ CacheAfter(n) = calls[n].cache_before
           /\ AllColumnsMatch(calls[n]) => DDL(calls[n]) = <<>>

\* a pass that changed the table and refreshed a stale cache, then a pass
\* that found every column in place
C26_Witness ==
    /\ Len(calls) = 2
    /\ calls[1].branch = "update" /\ calls[1].used_cache /\ calls[1].error = None
    /\ DDL(calls[1]) # <<>>
    /\ calls[2].cache_before # calls[1].cache_before
    /\ calls[2].branch = "update" /\ calls[2].used_cache /\ calls[2].error = None
    /\ AllColumnsMatch(calls[2])
    /\ calls[2].statements = <<>>
    /\ table_cache = calls[2].cache_before

\* a row names the stream's table when letter case is ignored
NamesStreamTable(row) ==
    /\ upper(row.SCHEMA_NAME) = upper(schema_name)
    /\ Quote(upper(row.TABLE_NAME)) = table_name(stream, FALSE, TRUE)

\* C27: with a cache in use, a cached row that names the stream's schema
\* and table in any letter case makes sync_table take the table as
\* existing, and update_columns finds that row among the table's columns.
C27_CaseInsensitiveCacheMatch ==
    \A n \in DOMAIN calls :
        \A row \in calls[n].cache_before.rows :
            (calls[n].used_cache /\ NamesStreamTable(row)) =>
                /\ calls[n].branch = "update"
                /\ upper(row.COLUMN_NAME) \in DOMAIN SeenColumns(calls[n])

\* the schema names the call saw no column for, and those it saw with
\* another type than the schema maps to, in the schema's sorted order
Missing(call) ==
    SelectSeq(Keys(flatten_schema),
              LAMBDA name : upper(name) \notin DOMAIN SeenColumns(call))

Mismatched(call) ==
    SelectSeq(Keys(flatten_schema),
              LAMBDA name :
                  /\ upper(name) \in DOMAIN SeenColumns(call)
                  /\ ~IsDateTime(name)
                  /\ upper(SeenColumns(call)[upper(name)].DATA_TYPE)
                        # upper(column_type(flatten_schema[name])))

\* the add-column statement of a schema name, as a column name and a type
AddsColumn(stmt, name) ==
    /\ stmt.op = "add column"
    /\ stmt.columns = <<[name |-> safe_column_name(name),
                         type |-> column_type(flatten_schema[name])]>>

\* the rename of the column of a schema name to its timestamp-suffixed name
VersionsColumn(stmt, name) ==
    /\ stmt.op = "rename column"
    /\ stmt.from = Quote(upper(name))
    /\ stmt.to = Quote(upper(name) \o "_" \o now)

\* C28: an update_columns pass adds the missing columns one statement
\* each in the schema's sorted order, then for each type-mismatched column
\* renames the existing column to the timestamp-suffixed name immediately
\* before adding the column again under the original name; after a pass
\* without error the renamed column is there with its old type and the
\* original name has the new type.
C28_AddsThenVersionedAdds ==
    \A n \in DOMAIN calls :
        calls[n].branch = "update" =>
            LET call == calls[n]
                ddl == DDL(call)
                a == Len(Missing(call))
                m == Len(Mismatched(call))
            IN  /\ Len(ddl) <= a + 2 * m
                /\ call.error = None => Len(ddl) = a + 2 * m
                /\ \A i \in DOMAIN ddl :
                      IF i <= a THEN AddsColumn(ddl[i], Missing(call)[i])
                      ELSE IF (i - a) % 2 = 1
                      THEN VersionsColumn(ddl[i], Mismatched(call)[(i - a + 1) \div 2])
                      ELSE AddsColumn(ddl[i], Mismatched(call)[(i - a) \div 2])
                /\ call.error = None =>
                      \A j \in DOMAIN Mismatched(call) :
                          LET name == Mismatched(call)[j]
                              before == TableRows(call.live_before, StreamTable)
                              after == TableRows(LiveAfter(n), StreamTable)
                          IN  /\ \E old \in before, kept \in after :
                                    /\ old.COLUMN_NAME = upper(name)
                                    /\ kept.COLUMN_NAME = upper(name) \o "_" \o now
                                    /\ kept.TYPE = old.TYPE
                              /\ \E new \in after :
                                    /\ new.COLUMN_NAME = upper(name)
                                    /\ new.TYPE
                                         = StoredType(column_type(flatten_schema[name]))

\* a pass that added two missing columns in sorted order
TwoColumnsAdded ==
    /\ Len(calls) = 1
    /\ calls[1].branch = "update"
    /\ calls[1].error = None
    /\ Len(Missing(calls[1])) = 2
    /\ Shape(calls[1]) = <<"show tables", "show columns", "add column", "add column">>

\* a pass that added one column and versioned another
C28_Witness ==
    /\ Len(calls) = 1
    /\ calls[1].branch = "update"
    /\ calls[1].error = None
    /\ Len(Missing(calls[1])) = 1
    /\ Len(Mismatched(calls[1])) = 1
    /\ calls[1].used_cache
    /\ Shape(calls[1]) = <<"add column", "rename column", "add column", "show columns">>

\* the statements of a call that the warehouse applied: all but the last of
\* a call that ended by an error
Applied(call) ==
    IF call.error = None THEN call.statements
    ELSE SubSeq(call.statements, 1, Len(call.statements) - 1)

\* the column a statement leaves in the table when it is applied
LeavesColumn(stmt) ==
    IF stmt.op = "rename column" THEN Unquote(stmt.to)
    ELSE Unquote(stmt.columns[1].name)

\* the pass ended at a failing add-column or rename-column statement
DDLFailed(call) ==
    /\ call.branch = "update"
    /\ call.error # None
    /\ call.statements[Len(call.statements)].op \in {"add column", "rename column"}

\* C29: when a DDL statement of update_columns fails, the call ends by the
\* error, the statements applied before it stay applied in the warehouse,
\* nothing after the failing statement is issued or applied, and the cache
\* is the one the pass started with.
C29_NoRollbackNoRefresh ==
    \A n \in DOMAIN calls :
        DDLFailed(calls[n]) =>
            LET call == calls[n]
                done == Applied(call)
            IN  /\ call.error = "ProgrammingError"
                /\ \A i \in DOMAIN done :
                      done[i].op \in {"add column", "rename column"} =>
                          \E r \in TableRows(LiveAfter(n), StreamTable) :
                              r.COLUMN_NAME = LeavesColumn(done[i])
                /\ Cardinality(LiveAfter(n)) - Cardinality(call.live_before)
                      = Cardinality({i \in DOMAIN done : done[i].op = "add column"})
                /\ \A i \in DOMAIN call.statements :
                      call.statements[i].op = "show columns" =>
                          /\ ~call.used_cache
                          /\ \A j \in 1 .. i - 1 : call.statements[j].op = "show tables"
                /\ CacheAfter(n) = call.cache_before

\* with a cache in use, a pass added a column and failed at the next one
C29_Witness ==
    /\ Len(calls) > 0
    /\ DDLFailed(calls[1])
    /\ calls[1].used_cache
    /\ Len(DDL(calls[1])) >= 2
    /\ calls[1].statements[1].op = "add column"
    /\ LiveAfter(1) # calls[1].live_before

\* ---------------------------------------------------------------------------
\* Errors of the introspection statements
\* ---------------------------------------------------------------------------

\* the statement the call ended at, when it ended by an error
FailedStatement(call) == call.statements[Len(call.statements)]

\* the rows of the stream's table in a catalog
StreamRows(cat) ==
    {x \in get_table_columns(cat, <<schema_name>>) :
        Quote(upper(x.TABLE_NAME)) = table_name(stream, FALSE, TRUE)}

\* C30: when the warehouse answers the introspection of a call with the
\* known "does not exist" error, no SHOW statement ends the call and the
\* schema gives no rows: without a cache sync_table takes the table as
\* absent, and a cache refresh stores no rows; any other programming error
\* ends the call at its first SHOW statement, handed on as it is, with the
\* warehouse and the cache left alone.
C30_IntrospectionErrors ==
    \A n \in DOMAIN calls :
        LET call == calls[n]
        IN  /\ call.response = "does not exist" =>
                /\ call.error # None => ~IsIntrospection(FailedStatement(call))
                /\ ~call.used_cache =>
                      /\ call.branch = "create"
                      /\ Len(call.statements) > 1 =>
                            call.statements[2].op = "create table"
                /\ (call.used_cache /\ call.error = None) =>
                      CacheAfter(n).rows = {}
            /\ call.response = "ProgrammingError" =>
                /\ call.error = "ProgrammingError"
                /\ IsIntrospection(FailedStatement(call))
                /\ \A i \in 1 .. Len(call.statements) - 1 :
                      ~IsIntrospection(call.statements[i])
                /\ CacheAfter(n) = call.cache_before
                /\ ~call.used_cache => LiveAfter(n) = call.live_before

\* a call without a cache whose introspection met the known error while the
\* table stood in the warehouse: the call went on and issued a create table
C30_Witness ==
    /\ Len(calls) = 1
    /\ calls[1].response = "does not exist"
    /\ ~calls[1].used_cache
    /\ StreamRows(calls[1].live_before) # {}
    /\ calls[1].branch = "create"
    /\ calls[1].error = None
    /\ Len(calls[1].statements) > 1

\* a call whose introspection met another programming error
C30_Reraised ==
    /\ Len(calls) = 1
    /\ calls[1].response = "ProgrammingError"
    /\ calls[1].error = "ProgrammingError"

\* ---------------------------------------------------------------------------
\* Serialization of record values
\* ---------------------------------------------------------------------------

\* the value a record holds at a path
RECURSIVE ValueAt(_, _)
ValueAt(record, path) ==
    IF Len(path) = 1 THEN Lookup(record, path[1])
    ELSE ValueAt(Lookup(record, path[1]).v, Tail(path))

\* the column of a flattened schema has the nullable structured type
StructuredColumn(fs, name) ==
    /\ HasKey(fs, name)
    /\ "type" \in DOMAIN Lookup(fs, name)
    /\ Lookup(fs, name).type = NullableStructured

\* the value flatten_record is to give for a record value of a column
Serialized(val, fs, name) ==
    IF val.t \in {"dict", "list"} \/ StructuredColumn(fs, name)
    THEN json_dumps(val) ELSE val

\* the leaf columns of the schema under call whose property is in the
\* record and whose value flatten_record has put under the column name
ValuedLeaves ==
    {p \in GivenLeaves :
        /\ Present(pure_call.record, p)
        /\ HasKey(pure_result.value, ColumnName(p))
        /\ (ValueAt(pure_call.record, p).t = "dict"
               => Len(p) > pure_call.max_level)}

\* C31: flatten_record gives the JSON text of a value that is a dict or a
\* list, or whose column, looked up by its flattened name at any depth, has
\* the nullable structured type in the flattened schema; it gives every
\* other value as it is.
C31_SerializedByColumnType ==
    (Returned("flatten_record") /\ pure_result.error = None) =>
        \A p \in ValuedLeaves :
            LET got == Lookup(pure_result.value, ColumnName(p))
                due == Serialized(ValueAt(pure_call.record, p),
                                  pure_result.flatten_schema, ColumnName(p))
            IN  got.t = due.t /\ got.v = due.v

\* the same for the columns of the top level only
C31_TopLevelSerialized ==
    (Returned("flatten_record") /\ pure_result.error = None) =>
        \A p \in {q \in ValuedLeaves : Len(q) = 1} :
            LET got == Lookup(pure_result.value, ColumnName(p))
                due == Serialized(ValueAt(pure_call.record, p),
                                  pure_result.flatten_schema, ColumnName(p))
            IN  got.t = due.t /\ got.v = due.v

\* ---------------------------------------------------------------------------
\* flatten_schema and the schema it is given
\* ---------------------------------------------------------------------------

\* flatten_schema has returned twice for one schema object
ReturnedAgain == Returned("flatten_schema") /\ "again" \in DOMAIN pure_result

\* C32: flatten_schema leaves the schema it is given as it was, and a second
\* call with the same schema object and max_level returns the columns and
\* types of the first.
C32_FlattenSchemaRepeatable ==
    /\ Returned("flatten_schema") => pure_call.d = pure_call.given
    /\ ReturnedAgain =>
          /\ pure_result.again.error = None
          /\ pure_result.again.value = pure_result.value

\* the same for the schemas whose properties all have a 'type'
RECURSIVE AllTyped(_)
AllTyped(node) ==
    "properties" \in DOMAIN node =>
        \A i \in DOMAIN node.properties :
            /\ "type" \in DOMAIN node.properties[i][2]
            /\ AllTyped(node.properties[i][2])

C32_TypedSchemaRepeatable ==
    (Returned("flatten_schema") /\ AllTyped(pure_call.given))
    => C32_FlattenSchemaRepeatable

\* a second call that returned without the column of the first
C32_ColumnLost ==
    /\ ReturnedAgain
    /\ pure_result.again.error = None
    /\ Len(pure_result.again.value) < Len(pure_result.value)

\* ---------------------------------------------------------------------------
\* The properties flatten_schema does not descend into
\* ---------------------------------------------------------------------------

\* the paths of the properties of a schema that flatten_schema does not
\* descend into, those without 'type' included
RECURSIVE Undescended(_, _, _, _)
Undescended(node, path, level, max_level) ==
    IF "properties" \notin DOMAIN node THEN {}
    ELSE UNION {
        LET k == node.properties[i][1]
            v == node.properties[i][2]
        IN  IF "type" \in DOMAIN v /\ DescendsInto(v, level, max_level)
            THEN Undescended(v, Append(path, k), level + 1, max_level)
            ELSE {Append(path, k)} : i \in DOMAIN node.properties}

\* the schema node at a path
RECURSIVE NodeAt(_, _)
NodeAt(node, path) ==
    IF path = <<>> THEN node
    ELSE NodeAt(Lookup(node.properties, path[1]), Tail(path))

\* the type of the first alternative of a union, as a set of names
FirstAlternativeType(v) ==
    IF "type_str" \in DOMAIN v.anyOf[1] THEN {v.anyOf[1].type_str}
    ELSE v.anyOf[1].type

\* C33: the flattened schema has a column for every property that
\* flatten_schema does not descend into, and the column of a property
\* without 'type' has the type of its first alternative, made nullable.
C33_EveryPropertyHasColumn ==
    (Returned("flatten_schema") /\ pure_result.error = None) =>
        \A p \in Undescended(pure_call.given, <<>>, 0, pure_call.max_level) :
            /\ HasKey(pure_result.value, ColumnName(p))
            /\ "type" \notin DOMAIN NodeAt(pure_call.given, p) =>
                  Lookup(pure_result.value, ColumnName(p)).type
                      = {"null"} \cup FirstAlternativeType(NodeAt(pure_call.given, p))

\* the same for the unions whose first alternative is named string, array
\* or object, and for the properties with a 'type'
C33_NamedUnionHasColumn ==
    (Returned("flatten_schema") /\ pure_result.error = None) =>
        \A p \in GivenLeaves :
            /\ HasKey(pure_result.value, ColumnName(p))
            /\ "type" \notin DOMAIN NodeAt(pure_call.given, p) =>
                  Lookup(pure_result.value, ColumnName(p)).type
                      = {"null"} \cup FirstAlternativeType(NodeAt(pure_call.given, p))

\* ---------------------------------------------------------------------------
\* The columns reconciliation leaves in place
\* ---------------------------------------------------------------------------

\* a live column is not named by the flattened schema
AbsentFromSchema(row) ==
    \A name \in DOMAIN flatten_schema :
        Unquote(safe_column_name(name)) # row.COLUMN_NAME

\* the call renamed the column of a row to its name with the time suffix,
\* and the row stands under that name, with its type, after the call
Versioned(call, row, after) ==
    /\ row \in TableRows(call.live_before, StreamTable)
    /\ \E i \in DOMAIN call.statements :
          /\ call.statements[i].op = "rename column"
          /\ Unquote(call.statements[i].from) = row.COLUMN_NAME
          /\ call.statements[i].to = Quote(row.COLUMN_NAME \o "_" \o now)
          /\ [row EXCEPT !.COLUMN_NAME = Unquote(call.statements[i].to)] \in after

\* C34: sync_table issues no drop-column statement; every column of the
\* warehouse before a call stands after it with its type, under its own
\* name or, when the call versioned it, under its name with the time
\* suffix; a column the flattened schema does not name stands unchanged.
C34_NoColumnLost ==
    \A n \in DOMAIN calls :
        /\ \A i \in DOMAIN calls[n].statements :
              calls[n].statements[i].op # "drop column"
        /\ \A row \in calls[n].live_before :
              /\ row \in LiveAfter(n) \/ Versioned(calls[n], row, LiveAfter(n))
              /\ AbsentFromSchema(row) => row \in LiveAfter(n)

\* a call that versioned a column of the stream's table while another of
\* its columns, which the schema does not name, was there
C34_Witness ==
    /\ Len(calls) = 1
    /\ calls[1].error = None
    /\ \E row \in calls[1].live_before :
          /\ row \notin live
          /\ Versioned(calls[1], row, live)
    /\ \E row \in TableRows(calls[1].live_before, StreamTable) :
          AbsentFromSchema(row) /\ row \in live

\* ---------------------------------------------------------------------------
\* record_to_csv_line
\* ---------------------------------------------------------------------------

k_region == <<"r", "e", "g", "i", "o", "n">>
k_ts == <<"t", "s">>

\* stream schemas of the line model, properties in the order they are
\* declared; flatten_schema sorts them
CsvSchemas ==
    {[properties |-> << <<k_ts, Leaf({"null", "string"})>>,
                        <<k_region, Leaf(NullableStructured)>>,
                        <<k_id, Leaf({"null", "integer"})>> >>],
     [properties |-> << <<k_region, Leaf(NullableStructured)>>,
                        <<k_id, Leaf({"null", "integer"})>> >>]}

\* values a record holds under the three names
IdValues == {[t |-> "null", v |-> None], [t |-> "int", v |-> 0], [t |-> "int", v |-> 7]}
TsValues == {[t |-> "str", v |-> ""], [t |-> "str", v |-> "a"], [t |-> "str", v |-> "a,b"]}
StructuredValues ==
    {[t |-> "dict", v |-> << <<k_x, [t |-> "str", v |-> "a"]>>,
                             <<k_id, [t |-> "int", v |-> 7]>> >>],
     [t |-> "list", v |-> <<[t |-> "int", v |-> 7], [t |-> "int", v |-> 7]>>]}
RegionValues == {[t |-> "null", v |-> None]} \cup StructuredValues

\* a record: each name absent or present with one of its values, in the
\* order region, ts, id, and possibly a key the schema does not have
Optional(k, values) == {<<>>} \cup {<< <<k, val>> >> : val \in values}

CsvRecords ==
    {r \o s \o t \o u :
        r \in Optional(k_region, RegionValues), s \in Optional(k_ts, TsValues),
        t \in Optional(k_id, IdValues), u \in Optional(k_x, {[t |-> "int", v |-> 7]})}

\* json.dumps(v, ensure_ascii=False) as characters
EscapeChars(cs) ==
    Join(<<>>, [i \in DOMAIN cs |->
                  IF cs[i] \in {"\"", "\\"} THEN <<"\\", cs[i]>> ELSE <<cs[i]>>])

\* the characters of the string values of the records
StrChars(s) ==
    CASE s = "" -> <<>>
      [] s = "a" -> <<"a">>
      [] s = "a,b" -> <<"a", ",", "b">>

RECURSIVE json_chars(_)
json_chars(value) ==
    CASE value.t = "dict" ->
            <<"{">>
            \o Join(<<",", " ">>,
                    [i \in DOMAIN value.v |->
                        <<"\"">> \o value.v[i][1] \o <<"\"", ":", " ">>
                        \o json_chars(value.v[i][2])])
            \o <<"}">>
      [] value.t = "list" ->
            <<"[">>
            \o Join(<<",", " ">>, [i \in DOMAIN value.v |-> json_chars(value.v[i])])
            \o <<"]">>
      [] value.t = "str" -> <<"\"">> \o EscapeChars(StrChars(value.v)) \o <<"\"">>
      [] value.t = "int" -> <<CodeOrder[Ord("0") + value.v]>>
      [] OTHER -> <<"n", "u", "l", "l">>

\* the characters of a string of a flattened record: one of the string
\* values, or the JSON text flatten_record made of a value
KnownTexts ==
    {StrChars(val.v) : val \in TsValues} \cup {json_chars(val) : val \in RegionValues}

CharsOf(s) == CHOOSE cs \in KnownTexts : Text(cs) = s

\* json.dumps(flatten[name], ensure_ascii=False) for the values a flattened
\* record holds
cell_chars(value) ==
    IF value.t = "str" THEN <<"\"">> \o EscapeChars(CharsOf(value.v)) \o <<"\"">>
    ELSE json_chars(value)

\* `flatten[name] == 0 or flatten[name]`
ZeroOrTruthy(value) ==
    CASE value.t = "null" -> FALSE
      [] value.t = "int" -> TRUE
      [] value.t = "str" -> value.v # ""
      [] OTHER -> value.v # <<>>

csv_names_OfRecord(fs, flatten) == [i \in DOMAIN flatten |-> flatten[i][1]]

\* `for name in self.flatten_schema`
csv_names(fs, flatten) == [i \in DOMAIN fs |-> fs[i][1]]

\* the list record_to_csv_line joins
csv_cells(fs, flatten) ==
    [i \in DOMAIN csv_names(fs, flatten) |->
        IF HasKey(flatten, csv_names(fs, flatten)[i])
           /\ ZeroOrTruthy(Lookup(flatten, csv_names(fs, flatten)[i]))
        THEN cell_chars(Lookup(flatten, csv_names(fs, flatten)[i]))
        ELSE <<>>]

\* record_to_csv_line(record)
record_to_csv_line(record, fs, max_level) ==
    Join(<<",">>, csv_cells(fs, flatten_record(record, fs, max_level)))

\* self.flatten_schema as the mapping the statements are built from
Mapping(fs) ==
    [n \in {Text(fs[i][1]) : i \in DOMAIN fs} |->
        fs[CHOOSE i \in DOMAIN fs : Text(fs[i][1]) = n][2]]

\* the dict flatten_schema returns for a stream schema
Flattened(schema) == flatten_schema_of(schema, <<>>, DefaultSep, 0, 0).items

RecordToCsvLineCalls ==
    {[fn |-> "record_to_csv_line", fs |-> Flattened(schema), record |-> r,
      max_level |-> m] : schema \in CsvSchemas, r \in CsvRecords, m \in {0, 1}}

\* record_to_csv_line(record)
RecordToCsvLine ==
    /\ pure_call.fn = "record_to_csv_line"
    /\ ~pure_result.done
    /\ \E flat \in {flatten_record(pure_call.record, pure_call.fs,
                                   pure_call.max_level)} :
          pure_result' = [done |-> TRUE, error |-> None, flatten |-> flat,
                          value |-> record_to_csv_line(pure_call.record, pure_call.fs,
                                                       pure_call.max_level)]
    /\ UNCHANGED <<connection_config, key_properties, pipe_vars, load_vars,
                   sync_vars, pure_call, dbsync, conn_vars>>

InitCsv ==
    /\ PipeIdle
    /\ SyncIdle
    /\ InitIdle
    /\ ConnIdle
    /\ connection_config = [file_format |-> "csv"]
    /\ pure_call \in RecordToCsvLineCalls
    /\ pure_result = [done |-> FALSE]
    /\ flatten_schema = Mapping(pure_call.fs)
    /\ key_properties \in {<<>>, <<"id">>}
    /\ staged = <<>>
    /\ table_rows = <<>>
    /\ copied_files = {}
    /\ load_log = <<>>

NextCsv == RecordToCsvLine

SpecCsv == InitCsv /\ [][NextCsv]_vars

\* the cells of a line of the staged file: the commas outside the fields
\* enclosed in double quotes separate them, a backslash inside such a field
\* takes the next character with it
RECURSIVE CellsFrom(_, _, _, _)
CellsFrom(cs, i, piece, quoted) ==
    IF i > Len(cs) THEN <<piece>>
    ELSE IF quoted /\ cs[i] = "\\" /\ i < Len(cs)
    THEN CellsFrom(cs, i + 2, piece \o <<cs[i], cs[i + 1]>>, quoted)
    ELSE IF cs[i] = "\""
    THEN CellsFrom(cs, i + 1, Append(piece, cs[i]), ~quoted)
    ELSE IF cs[i] = "," /\ ~quoted
    THEN <<piece>> \o CellsFrom(cs, i + 1, <<>>, FALSE)
    ELSE CellsFrom(cs, i + 1, Append(piece, cs[i]), quoted)

Cells(line) == CellsFrom(line, 1, <<>>, FALSE)

\* the text an enclosed cell holds
RECURSIVE UnescapeFrom(_, _)
UnescapeFrom(cs, i) ==
    IF i > Len(cs) THEN <<>>
    ELSE IF cs[i] = "\\" /\ i < Len(cs) THEN <<cs[i + 1]>> \o UnescapeFrom(cs, i + 2)
    ELSE <<cs[i]>> \o UnescapeFrom(cs, i + 1)

Enclosed(cell) ==
    IF Len(cell) >= 2 /\ cell[1] = "\"" /\ cell[Len(cell)] = "\""
    THEN UnescapeFrom(SubSeq(cell, 2, Len(cell) - 1), 1)
    ELSE cell

\* the names of the columns of the statements, in their order
CopyColumns == copy_sql(flatten_schema).cols
MergeSelect == merge_sql(flatten_schema, key_properties).select
MergeInsert == merge_sql(flatten_schema, key_properties).insert_cols
CreateColumns == create_table_query(flatten_schema, key_properties, FALSE).columns

\* C35: the line of a record has one cell for each column of the flattened
\* schema, cell i being that of the column that stands at place i in the
\* column list of COPY, in the select list of MERGE under $i, in its insert
\* list, and in the column list of create table; the cell of a column the
\* flattened record does not have is empty, and every other cell holds the
\* value of its own column.
C35_OneCellPerColumn ==
    Returned("record_to_csv_line") =>
        LET fs == pure_call.fs
            flat == pure_result.flatten
            cells == Cells(pure_result.value)
        IN  /\ Len(cells) = Len(fs)
            /\ Len(CopyColumns) = Len(fs)
            /\ Len(MergeSelect) = Len(fs)
            /\ Len(CreateColumns) = Len(fs)
            /\ \A i \in DOMAIN fs :
                  /\ CopyColumns[i] = safe_column_name(Text(fs[i][1]))
                  /\ MergeSelect[i].name = CopyColumns[i]
                  /\ MergeSelect[i].pos = i
                  /\ MergeInsert[i] = CopyColumns[i]
                  /\ CreateColumns[i].name = CopyColumns[i]
                  /\ ~HasKey(flat, fs[i][1]) => cells[i] = <<>>
                  /\ HasKey(flat, fs[i][1]) =>
                        LET value == Lookup(flat, fs[i][1])
                        IN  CASE value.t = "int" -> cells[i] = json_chars(value)
                              [] value.t = "str" /\ value.v # "" ->
                                    Text(Enclosed(cells[i])) = value.v
                              [] OTHER -> cells[i] = <<>>

\* a record without the first column and with a comma inside a later value:
\* an empty first cell, and as many cells as columns
C35_Witness ==
    /\ Returned("record_to_csv_line")
    /\ Len(pure_call.fs) = 3
    /\ ~HasKey(pure_result.flatten, pure_call.fs[1][1])
    /\ HasKey(pure_result.flatten, pure_call.fs[2][1])
    /\ Lookup(pure_result.flatten, pure_call.fs[2][1]).t = "str"
    /\ \E j \in DOMAIN Enclosed(Cells(pure_result.value)[2]) :
          Enclosed(Cells(pure_result.value)[2])[j] = ","
    /\ Cells(pure_result.value)[1] = <<>>
    /\ Cells(pure_result.value)[3] # <<>>

====
